---- MODULE Spec2Model ----
(***************************************************************************)
(* A model of the ViewState codec: the decoder (src/decoder.js), the       *)
(* editor/encoder (the ViewStateEditor class printed in src/README.md) and *)
(* the page controller (src/app.js).                                       *)
(*                                                                         *)
(* Octets are integers 0..255 and buffers are sequences of octets.  Text   *)
(* is a sequence of UTF-16 code units, as a JavaScript string is.  A       *)
(* JavaScript value is a record tagged by its field k:                     *)
(*   [k |-> "null"], [k |-> "bool", b], [k |-> "num", n],                  *)
(*   [k |-> "f64", bytes], [k |-> "str", s], [k |-> "arr", items],         *)
(*   [k |-> "obj", keys, vals]  (keys in property-enumeration order).      *)
(* Methods that mutate the decoder are operators that take the decoder     *)
(* state st and return [v |-> returned value, st |-> new state].           *)
(***************************************************************************)
EXTENDS Integers, Sequences, FiniteSets, TLC

VARIABLES
    position,           \* ViewStateDecoder.position
    data,               \* ViewStateDecoder.data
    stats,              \* ViewStateDecoder.stats
    stringTable,        \* ViewStateDecoder.stringTable
    typeTable,          \* ViewStateDecoder.typeTable
    trace,              \* history: every value the cursor took in the last call
    currentData,        \* ViewStateEditor.currentData
    editorStringTable,  \* ViewStateEditor.stringTable
    input,              \* the argument of the operation under way
    result,             \* what decode returned last
    encoded,            \* what encode returned last
    out,                \* what the last helper call returned
    pc                  \* where the scenario stands

vars == <<position, data, stats, stringTable, typeTable, trace, currentData,
          editorStringTable, input, result, encoded, out, pc>>

-----------------------------------------------------------------------------
(* Bounds of the model *)

MaxSmallInt == 300      \* the integers 0..MaxSmallInt are all encoded
MaxTextLen == 2         \* every string of up to MaxTextLen units is encoded
MaxBufLen == 2          \* every buffer of up to MaxBufLen octets of ByteAlphabet is decoded
MaxItems == 2           \* lists and maps of up to MaxItems members are edited

-----------------------------------------------------------------------------
(* 32-bit arithmetic as JavaScript's bitwise operators perform it *)

RECURSIVE Pow2(_)
Pow2(e) == IF e = 0 THEN 1 ELSE 2 * Pow2(e - 1)

Two7 == Pow2(7)
Two28 == Pow2(28)
Two30 == Pow2(30)

Min(a, b) == IF a < b THEN a ELSE b
Max(a, b) == IF a > b THEN a ELSE b

\* a | b for 0 <= a, b < 2^31
RECURSIVE BitOr(_, _)
BitOr(a, b) ==
    IF a = 0 THEN b
    ELSE IF b = 0 THEN a
    ELSE (IF (a % 2) = 1 \/ (b % 2) = 1 THEN 1 ELSE 0) + 2 * BitOr(a \div 2, b \div 2)

\* the low 31 bits of an Int32
Low31(a) == IF a < 0 THEN (a + Two30) + Two30 ELSE a

\* a | b on Int32 operands, an Int32
Or32(a, b) ==
    LET r == BitOr(Low31(a), Low31(b))
    IN  IF a < 0 \/ b < 0 THEN (r - Two30) - Two30 ELSE r

\* x << s as an Int32, for 0 <= x < 128 and 0 <= s <= 28
Shl32(x, s) ==
    IF s < 28 THEN x * Pow2(s)
    ELSE LET kept == x % Pow2(32 - s)           \* the bits that stay below bit 32
             sign == kept \div Pow2(31 - s)     \* bit 31 of the result
             low  == kept % Pow2(31 - s)
         IN  (low - sign * Pow2(31 - s)) * Pow2(s)

\* A JavaScript integer too wide for 32 bits: hi * 2^28 + lo, 0 <= lo < 2^28
Wide(hi, lo) == [hi |-> hi, lo |-> lo]
ToWide(n) == Wide(n \div Two28, n % Two28)
IsInt32(w) == w.hi >= -8 /\ w.hi <= 7
WideToInt(w) == w.hi * Two28 + w.lo             \* only when IsInt32(w)
\* a plausible slip: value > 128
WideGT128(w) == w.hi > 0 \/ (w.hi = 0 /\ w.lo > Two7)
WideGE128(w) == w.hi > 0 \/ (w.hi = 0 /\ w.lo >= Two7)
\* ToUint32(w) >>> 7
WideUshr7(w) == (w.hi % 16) * Pow2(21) + (w.lo \div Two7)

\* the octet a typed array stores for the number x
ToUint8(x) == x % 256

-----------------------------------------------------------------------------
(* Decoder state *)

None == [k |-> "none"]

ZeroStats == [pairs |-> 0, triplets |-> 0, arrays |-> 0, strings |-> 0,
              integers |-> 0, booleans |-> 0, objects |-> 0]

\* the decoder's mutable fields, as the parsing operators thread them
DecState(pos, st, tt, ss, tr) ==
    [position |-> pos, stringTable |-> st, typeTable |-> tt, stats |-> ss,
     trace |-> tr, calls |-> 0, refs |-> <<>>, spans |-> <<>>, thrown |-> ""]

R(v, st) == [v |-> v, st |-> st]

\* this.position = p
SetPos(st, p) == [st EXCEPT !.position = p, !.trace = Append(@, p)]

readByte(d, st) ==
    IF st.position >= Len(d) THEN R(0, st)
    ELSE R(d[st.position + 1], SetPos(st, st.position + 1))

RECURSIVE read7BitLoop(_, _, _, _)
RECURSIVE read7BitLoopThrowing(_, _, _, _)

\* a plausible slip: running out of octets inside a varint raises
read7BitLoopThrowing(d, st, res, shift) ==
    IF shift >= 35 THEN R(res, st)
    ELSE IF st.position >= Len(d)
    THEN R(res, IF shift > 0 THEN [st EXCEPT !.thrown = "Unexpected end of data"] ELSE st)
    ELSE LET b == readByte(d, st)
             r2 == Or32(res, Shl32(b.v % Two7, shift))
         IN  IF b.v \div Two7 # 0
             THEN read7BitLoopThrowing(d, b.st, r2, shift + 7)
             ELSE R(r2, b.st)

read7BitLoop(d, st, res, shift) ==
    IF shift >= 35 \/ st.position >= Len(d) THEN R(res, st)
    ELSE LET b == readByte(d, st)
             r2 == Or32(res, Shl32(b.v % Two7, shift))
         IN  IF b.v \div Two7 # 0
             THEN read7BitLoop(d, b.st, r2, shift + 7)
             ELSE R(r2, b.st)

read7BitEncodedInt(d, st) == read7BitLoop(d, st, 0, 0)

-----------------------------------------------------------------------------
(* Editor: integer encoding *)

\* the numbers pushed by the loop once value is an Int32 again
RECURSIVE encode7BitTail(_)
encode7BitTail(value) ==
    IF value >= Two7
    THEN <<BitOr(value % Two7, Two7)>> \o encode7BitTail(value \div Two7)
    ELSE <<value>>

\* value is a Wide; the result is the array of numbers pushed
encode7BitInt(value) ==
    IF WideGE128(value)
    THEN <<BitOr(value.lo % Two7, Two7)>> \o encode7BitTail(WideUshr7(value))
    ELSE <<WideToInt(value)>>

\* new Uint8Array(numbers)
Uint8Array(numbers) == [i \in 1..Len(numbers) |-> ToUint8(numbers[i])]

serializeInt32(value) == Uint8Array(<<2>> \o encode7BitInt(value))

-----------------------------------------------------------------------------
(* UTF-8, as TextEncoder and TextDecoder('utf-8') perform it *)

IsHighSurrogate(c) == c >= 55296 /\ c <= 56319     \* D800..DBFF
IsLowSurrogate(c) == c >= 56320 /\ c <= 57343      \* DC00..DFFF
IsContinuation(b) == b >= 128 /\ b <= 191          \* 80..BF

\* the octets of one code point
EncodeCodePoint(cp) ==
    IF cp < 128 THEN <<cp>>
    ELSE IF cp < 2048 THEN <<192 + (cp \div 64), 128 + (cp % 64)>>
    ELSE IF cp < 65536
         THEN <<224 + (cp \div 4096), 128 + ((cp \div 64) % 64), 128 + (cp % 64)>>
    ELSE <<240 + (cp \div 262144), 128 + ((cp \div 4096) % 64),
           128 + ((cp \div 64) % 64), 128 + (cp % 64)>>

\* units lo..hi of s, one after the other; a lone surrogate becomes U+FFFD
RECURSIVE EncodeUnits(_, _, _)
EncodeUnits(s, lo, hi) ==
    IF lo > hi THEN <<>>
    ELSE IF IsHighSurrogate(s[lo]) /\ lo < hi /\ IsLowSurrogate(s[lo + 1])
         THEN EncodeCodePoint(65536 + (s[lo] - 55296) * 1024 + (s[lo + 1] - 56320))
              \o EncodeUnits(s, lo + 2, hi)
    ELSE IF IsHighSurrogate(s[lo]) \/ IsLowSurrogate(s[lo])
         THEN <<239, 191, 189>> \o EncodeUnits(s, lo + 1, hi)
    ELSE EncodeCodePoint(s[lo]) \o EncodeUnits(s, lo + 1, hi)

\* the same, halving long ranges at a code point boundary
RECURSIVE EncodeRange(_, _, _)
EncodeRange(s, lo, hi) ==
    IF hi - lo < 16 THEN EncodeUnits(s, lo, hi)
    ELSE LET m0 == (lo + hi) \div 2
             m == IF IsHighSurrogate(s[m0 - 1]) /\ IsLowSurrogate(s[m0])
                  THEN m0 - 1 ELSE m0
         IN  EncodeRange(s, lo, m - 1) \o EncodeRange(s, m, hi)

\* new TextEncoder().encode(str)
UTF8Encode(str) == EncodeRange(str, 1, Len(str))

\* the UTF-16 units of one code point
UnitsOf(cp) ==
    IF cp < 65536 THEN <<cp>>
    ELSE <<55296 + ((cp - 65536) \div 1024), 56320 + ((cp - 65536) % 1024)>>

\* how many continuation octets the lead octet c announces (0: none, -1: invalid)
Needed(c) ==
    IF c < 128 THEN 0
    ELSE IF c >= 194 /\ c <= 223 THEN 1
    ELSE IF c >= 224 /\ c <= 239 THEN 2
    ELSE IF c >= 240 /\ c <= 244 THEN 3
    ELSE -1

\* the range the first continuation octet after lead c must lie in
LowerBound(c) == IF c = 224 THEN 160 ELSE IF c = 240 THEN 144 ELSE 128
UpperBound(c) == IF c = 237 THEN 159 ELSE IF c = 244 THEN 143 ELSE 191

\* how many of the octets after position i continue the sequence led by b[i]
RECURSIVE Continues(_, _, _, _, _)
Continues(b, i, hi, k, need) ==
    IF k > need \/ i + k > hi THEN k - 1
    ELSE LET x == b[i + k]
             ok == IF k = 1 THEN x >= LowerBound(b[i]) /\ x <= UpperBound(b[i])
                   ELSE IsContinuation(x)
         IN  IF ok THEN Continues(b, i, hi, k + 1, need) ELSE k - 1

\* octets lo..hi of b decoded, ill-formed sequences replaced by U+FFFD
RECURSIVE DecodeOctets(_, _, _)
DecodeOctets(b, lo, hi) ==
    IF lo > hi THEN <<>>
    ELSE LET c == b[lo]
             need == Needed(c)
         IN  IF need = 0 THEN <<c>> \o DecodeOctets(b, lo + 1, hi)
             ELSE IF need = -1 THEN <<65533>> \o DecodeOctets(b, lo + 1, hi)
             ELSE LET got == Continues(b, lo, hi, 1, need)
                  IN  IF got < need
                      THEN <<65533>> \o DecodeOctets(b, lo + got + 1, hi)
                      ELSE LET cp ==
                                 IF need = 1 THEN (c - 192) * 64 + (b[lo + 1] - 128)
                                 ELSE IF need = 2
                                      THEN (c - 224) * 4096 + (b[lo + 1] - 128) * 64
                                           + (b[lo + 2] - 128)
                                 ELSE (c - 240) * 262144 + (b[lo + 1] - 128) * 4096
                                      + (b[lo + 2] - 128) * 64 + (b[lo + 3] - 128)
                           IN  UnitsOf(cp) \o DecodeOctets(b, lo + need + 1, hi)

\* the nearest position at or before m, above lo, that starts a sequence
RECURSIVE SplitPoint(_, _, _)
SplitPoint(b, lo, m) ==
    IF m <= lo THEN lo
    ELSE IF IsContinuation(b[m]) THEN SplitPoint(b, lo, m - 1)
    ELSE m

\* the same as DecodeOctets, halving long ranges where a sequence starts
RECURSIVE DecodeRange(_, _, _)
DecodeRange(b, lo, hi) ==
    IF hi - lo < 16 THEN DecodeOctets(b, lo, hi)
    ELSE LET m == SplitPoint(b, lo, (lo + hi) \div 2)
         IN  IF m = lo THEN DecodeOctets(b, lo, hi)
             ELSE DecodeRange(b, lo, m - 1) \o DecodeRange(b, m, hi)

\* new TextDecoder('utf-8').decode(bytes): not fatal, a leading BOM is dropped
UTF8Decode(bytes) ==
    LET WithoutBOM(units) ==
            IF Len(units) > 0 /\ units[1] = 65279 THEN Tail(units) ELSE units
    IN  WithoutBOM(DecodeRange(bytes, 1, Len(bytes)))

-----------------------------------------------------------------------------
(* Strings *)

MaxStringLength == 100000

Bump(ss, field) == [ss EXCEPT ![field] = @ + 1]

\* a plausible slip: the cursor advances by the declared length
readStringUnclamped(d, st) ==
    LET Sized(len) ==
            LET length == len.v
                st1 == len.st
                available == Min(length, Len(d) - st1.position)
            IN  IF length = 0 \/ length > MaxStringLength THEN R(<<>>, st1)
                ELSE IF available <= 0 THEN R(<<>>, st1)
                ELSE R(UTF8Decode(SubSeq(d, st1.position + 1, st1.position + available)),
                       [SetPos(st1, st1.position + length)
                            EXCEPT !.stats = Bump(@, "strings")])
    IN  Sized(read7BitEncodedInt(d, st))

\* a plausible slip: every string read is interned
readStringInterning(d, st) ==
    LET Sized(len) ==
            LET length == len.v
                st1 == len.st
                available == Min(length, Len(d) - st1.position)
                Read(str) ==
                    R(str, [SetPos(st1, st1.position + available)
                                EXCEPT !.stats = Bump(@, "strings"),
                                       !.stringTable = Append(@, str)])
            IN  IF length = 0 \/ length > MaxStringLength THEN R(<<>>, st1)
                ELSE IF available <= 0 THEN R(<<>>, st1)
                ELSE Read(UTF8Decode(SubSeq(d, st1.position + 1, st1.position + available)))
    IN  Sized(read7BitEncodedInt(d, st))

readString(d, st) ==
    LET Sized(len) ==
            LET length == len.v
                st1 == len.st
                available == Min(length, Len(d) - st1.position)
            IN  IF length = 0 \/ length > MaxStringLength THEN R(<<>>, st1)
                ELSE IF available <= 0 THEN R(<<>>, st1)
                ELSE R(UTF8Decode(SubSeq(d, st1.position + 1, st1.position + available)),
                       [SetPos(st1, st1.position + available)
                            EXCEPT !.stats = Bump(@, "strings")])
    IN  Sized(read7BitEncodedInt(d, st))

\* a plausible slip: the length prefix counts UTF-16 units, not octets
serializeStringUnits(str) ==
    <<5>> \o Uint8Array(encode7BitInt(ToWide(Len(str)))) \o UTF8Encode(str)

serializeString(str) ==
    LET strBytes == UTF8Encode(str)
        lengthBytes == encode7BitInt(ToWide(Len(strBytes)))
    IN  <<5>> \o Uint8Array(lengthBytes) \o strBytes

-----------------------------------------------------------------------------
(* JavaScript values *)

\* the string literals of the source, as UTF-16 code units
Lit == [
    null |-> <<110, 117, 108, 108>>,
    true |-> <<116, 114, 117, 101>>,
    false |-> <<102, 97, 108, 115, 101>>,
    type |-> <<116, 121, 112, 101>>,
    first |-> <<102, 105, 114, 115, 116>>,
    second |-> <<115, 101, 99, 111, 110, 100>>,
    third |-> <<116, 104, 105, 114, 100>>,
    Pair |-> <<80, 97, 105, 114>>,
    Triplet |-> <<84, 114, 105, 112, 108, 101, 116>>,
    objectObject |-> <<91, 111, 98, 106, 101, 99, 116, 32, 79, 98, 106, 101, 99, 116, 93>>,
    StringRef |-> <<60, 83, 116, 114, 105, 110, 103, 82, 101, 102, 58>>,
    DateTime |-> <<60, 68, 97, 116, 101, 84, 105, 109, 101, 62>>,
    TypeRef |-> <<84, 121, 112, 101, 82, 101, 102>>,
    name |-> <<110, 97, 109, 101>>,
    KnownType |-> <<75, 110, 111, 119, 110, 84, 121, 112, 101>>,
    index |-> <<105, 110, 100, 101, 120>>,
    Unknown |-> <<85, 110, 107, 110, 111, 119, 110>>,
    marker |-> <<109, 97, 114, 107, 101, 114>>,
    position |-> <<112, 111, 115, 105, 116, 105, 111, 110>>,
    TypedArray |-> <<84, 121, 112, 101, 100, 65, 114, 114, 97, 121>>,
    typeIndex |-> <<116, 121, 112, 101, 73, 110, 100, 101, 120>>,
    items |-> <<105, 116, 101, 109, 115>>,
    BinaryObject |-> <<66, 105, 110, 97, 114, 121, 79, 98, 106, 101, 99, 116>>,
    BinarySerializedObject |-> <<66, 105, 110, 97, 114, 121, 83, 101, 114, 105, 97, 108, 105, 122, 101, 100, 79, 98, 106, 101, 99, 116>>,
    size |-> <<115, 105, 122, 101>>,
    content |-> <<99, 111, 110, 116, 101, 110, 116>>,
    rgba |-> <<114, 103, 98, 97, 40>>,
    objectType |-> <<111, 98, 106, 101, 99, 116, 84, 121, 112, 101>>,
    DataTable |-> <<68, 97, 116, 97, 84, 97, 98, 108, 101>>,
    SystemDataDataTable |-> <<83, 121, 115, 116, 101, 109, 46, 68, 97, 116, 97, 46, 68, 97, 116, 97, 84, 97, 98, 108, 101>>,
    extractedStrings |-> <<101, 120, 116, 114, 97, 99, 116, 101, 100, 83, 116, 114, 105, 110, 103, 115>>,
    hasDiffgram |-> <<104, 97, 115, 68, 105, 102, 102, 103, 114, 97, 109>>,
    schema |-> <<115, 99, 104, 101, 109, 97>>,
    xml |-> <<60, 63, 120, 109, 108>>,
    xsSchemaEnd |-> <<60, 47, 120, 115, 58, 115, 99, 104, 101, 109, 97, 62>>,
    xsSchema |-> <<60, 120, 115, 58, 115, 99, 104, 101, 109, 97>>,
    diffgr |-> <<60, 100, 105, 102, 102, 103, 114, 58>>,
    diffgram |-> <<60, 100, 105, 102, 102, 103, 114, 58, 100, 105, 102, 102, 103, 114, 97, 109>>,
    diffgramEnd |-> <<60, 47, 100, 105, 102, 102, 103, 114, 58, 100, 105, 102, 102, 103, 114, 97, 109, 62>>,
    xs |-> <<60, 120, 115, 58>>,
    ViewState |-> <<86, 105, 101, 119, 83, 116, 97, 116, 101>>,
    format |-> <<102, 111, 114, 109, 97, 116>>,
    LosFormatter |-> <<76, 111, 115, 70, 111, 114, 109, 97, 116, 116, 101, 114>>,
    xmlSchemas |-> <<120, 109, 108, 83, 99, 104, 101, 109, 97, 115>>,
    dotNetTypes |-> <<100, 111, 116, 78, 101, 116, 84, 121, 112, 101, 115>>,
    strings |-> <<115, 116, 114, 105, 110, 103, 115>>,
    structure |-> <<115, 116, 114, 117, 99, 116, 117, 114, 101>>,
    System |-> <<83, 121, 115, 116, 101, 109, 46>>,
    ctl |-> <<99, 116, 108>>,
    ImageButton |-> <<73, 109, 97, 103, 101, 66, 117, 116, 116, 111, 110>>,
    DataTableSchema |-> <<68, 97, 116, 97, 84, 97, 98, 108, 101, 32, 83, 99, 104, 101, 109, 97>>,
    tables |-> <<116, 97, 98, 108, 101, 115>>,
    columns |-> <<99, 111, 108, 117, 109, 110, 115>>,
    raw |-> <<114, 97, 119>>]

\* ['', 'px', 'pt', '%', 'em', 'ex', 'mm', 'cm', 'in', 'pc']
UnitSuffixes == << <<>>, <<112, 120>>, <<112, 116>>, <<37>>, <<101, 109>>, <<101, 120>>,
                  <<109, 109>>, <<99, 109>>, <<105, 110>>, <<112, 99>> >>

Null == [k |-> "null"]
Bool(b) == [k |-> "bool", b |-> b]
Num(n) == [k |-> "num", n |-> n]
Str(s) == [k |-> "str", s |-> s]
Arr(items) == [k |-> "arr", items |-> items]
Obj(keys, vals) == [k |-> "obj", keys |-> keys, vals |-> vals]

\* a double that is no integer, known by its eight octets (little-endian);
\* the all-zero octets are the number 0
F64(bytes) ==
    IF \A i \in 1..Len(bytes) : bytes[i] = 0 THEN Num(0)
    ELSE [k |-> "f64", bytes |-> bytes]
\* a float that is no integer, known by its four octets
F32(bytes) ==
    IF \A i \in 1..Len(bytes) : bytes[i] = 0 THEN Num(0)
    ELSE [k |-> "f32", bytes |-> bytes]

\* the decimal digits of n >= 0
RECURSIVE DecNat(_)
DecNat(n) == IF n < 10 THEN <<48 + n>> ELSE Append(DecNat(n \div 10), 48 + (n % 10))

\* String(n) for an Int32 n
Dec(n) ==
    IF n >= 0 THEN DecNat(n)
    ELSE LET d == (10 - (n % 10)) % 10
             rest == 0 - ((n + d) \div 10)
         IN  <<45>> \o (IF rest = 0 THEN <<>> ELSE DecNat(rest)) \o <<48 + d>>

HexDigit(h) == IF h < 10 THEN 48 + h ELSE 87 + h

\* String(v).  The text of a non-integer number is a stand-in: its octets
\* between vertical bars.
RECURSIVE ToStringJS(_)
RECURSIVE JoinItems(_, _)
ToStringJS(v) ==
    CASE v.k = "null" -> Lit.null
      [] v.k = "bool" -> IF v.b THEN Lit.true ELSE Lit.false
      [] v.k = "num" -> Dec(v.n)
      [] v.k \in {"f64", "f32"} -> <<124>> \o v.bytes \o <<124>>
      [] v.k = "str" -> v.s
      [] v.k = "arr" -> JoinItems(v.items, 1)
      [] v.k = "obj" -> Lit.objectObject

\* items.join(','): null elements print as nothing
JoinItems(items, i) ==
    IF i > Len(items) THEN <<>>
    ELSE (IF items[i].k = "null" THEN <<>> ELSE ToStringJS(items[i]))
         \o (IF i < Len(items) THEN <<44>> ELSE <<>>)
         \o JoinItems(items, i + 1)

IsDigit(c) == c >= 48 /\ c <= 57

\* a canonical array index: such property names enumerate first, in numeric order
IsArrayIndex(key) ==
    /\ Len(key) >= 1
    /\ \A i \in 1..Len(key) : IsDigit(key[i])
    /\ (Len(key) > 1 => key[1] # 48)
    /\ Len(key) <= 9

RECURSIVE DigitsValue(_)
DigitsValue(key) ==
    IF Len(key) = 0 THEN 0
    ELSE 10 * DigitsValue(SubSeq(key, 1, Len(key) - 1)) + (key[Len(key)] - 48)

IndexOfKey(keys, key) ==
    IF \E i \in 1..Len(keys) : keys[i] = key
    THEN CHOOSE i \in 1..Len(keys) : keys[i] = key
    ELSE 0

InsertAt(q, i, x) == SubSeq(q, 1, i - 1) \o <<x>> \o SubSeq(q, i, Len(q))

\* where a new property named key enters the enumeration order
InsertionPoint(keys, key) ==
    IF IsArrayIndex(key)
    THEN LET later == {i \in 1..Len(keys) :
                          ~IsArrayIndex(keys[i]) \/ DigitsValue(keys[i]) > DigitsValue(key)}
         IN  IF later = {} THEN Len(keys) + 1
             ELSE CHOOSE i \in later : \A j \in later : i <= j
    ELSE Len(keys) + 1

\* obj[key] = val on an ordinary object
ObjSet(o, key, val) ==
    LET at == IndexOfKey(o.keys, key)
    IN  IF at # 0 THEN [o EXCEPT !.vals[at] = val]
        ELSE LET p == InsertionPoint(o.keys, key)
             IN  Obj(InsertAt(o.keys, p, key), InsertAt(o.vals, p, val))

HasKey(o, key) == IndexOfKey(o.keys, key) # 0
ObjGet(o, key) == o.vals[IndexOfKey(o.keys, key)]

EmptyObj == Obj(<<>>, <<>>)

-----------------------------------------------------------------------------
(* Decoder: scalar bodies *)

\* this.stats.<field>++
Count(st, field) == [st EXCEPT !.stats = Bump(@, field)]

\* throw new <Error>(message)
Throw(st, message) == [st EXCEPT !.thrown = message]
Thrown(st) == st.thrown # ""

readBytes(d, st, count) ==
    LET available == Min(count, Len(d) - st.position)
    IN  R(SubSeq(d, st.position + 1, st.position + available),
          SetPos(st, st.position + available))

parseInt16(d, st) ==
    LET b1 == readByte(d, Count(st, "integers"))
        b2 == readByte(d, b1.st)
    IN  R(Num(b2.v * 256 + b1.v), b2.st)

\* The ticks are an unsigned 64-bit count, so the instant always lies in the
\* range Date can print; its ISO text is a stand-in: the octets after "ISO:".
parseDateTime(d, st) ==
    LET bytes == readBytes(d, st, 8)
    IN  IF Len(bytes.v) < 8 THEN R(Str(Lit.DateTime), bytes.st)
        ELSE R(Str(<<73, 83, 79, 58>> \o bytes.v), bytes.st)

parseDouble(d, st) ==
    LET bytes == readBytes(d, st, 8)
    IN  IF Len(bytes.v) < 8 THEN R(Num(0), bytes.st)
        ELSE R(F64(bytes.v), bytes.st)

parseFloat(d, st) ==
    LET bytes == readBytes(d, st, 4)
    IN  IF Len(bytes.v) < 4 THEN R(Num(0), bytes.st)
        ELSE R(F32(bytes.v), bytes.st)

\* (x >> s) & 0xFF for an Int32 x and s in {0, 8, 16, 24}
ByteOf(x, s) ==
    LET low == (Low31(x) \div Pow2(s)) % 256
    IN  IF s = 24 /\ x < 0 THEN low + 128 ELSE low

\* (a / 255).toFixed(2)
AlphaFixed(a) ==
    LET hundredths == (a * 200 + 255) \div 510
    IN  <<48 + (hundredths \div 100), 46, 48 + ((hundredths \div 10) % 10),
          48 + (hundredths % 10)>>

parseColor(d, st) ==
    LET Coloured(argb) ==
            R(Str(Lit.rgba \o Dec(ByteOf(argb.v, 16)) \o <<44, 32>>
                  \o Dec(ByteOf(argb.v, 8)) \o <<44, 32>> \o Dec(ByteOf(argb.v, 0))
                  \o <<44, 32>> \o AlphaFixed(ByteOf(argb.v, 24)) \o <<41>>), argb.st)
    IN  Coloured(read7BitEncodedInt(d, st))

parseUnit(d, st) ==
    LET Suffixed(value, unitType) ==
            LET suffix == IF unitType.v >= 0 /\ unitType.v < Len(UnitSuffixes)
                          THEN UnitSuffixes[unitType.v + 1] ELSE <<>>
            IN  R(Str(ToStringJS(value.v) \o suffix), unitType.st)
        Valued(value) == Suffixed(value, read7BitEncodedInt(d, value.st))
    IN  Valued(parseDouble(d, st))

parseType(d, st) ==
    LET Named(typeName) ==
            R(Obj(<<Lit.type, Lit.name>>, <<Str(Lit.TypeRef), Str(typeName.v)>>),
              [typeName.st EXCEPT !.typeTable = Append(@, typeName.v)])
    IN  Named(readString(d, Count(st, "objects")))

\* this.stringTable[idx] || `<StringRef:${idx}>`: an empty string is falsy
StringRefValue(table, idx) ==
    IF idx >= 0 /\ idx < Len(table) /\ table[idx + 1] # <<>>
    THEN Str(table[idx + 1])
    ELSE Str(Lit.StringRef \o Dec(idx) \o <<62>>)

\* this.typeTable[index] || { type: 'KnownType', index }
KnownTypeValue(table, index) ==
    IF index >= 0 /\ index < Len(table) /\ table[index + 1] # <<>>
    THEN Str(table[index + 1])
    ELSE Obj(<<Lit.type, Lit.index>>, <<Str(Lit.KnownType), Num(index)>>)

parseKnownType(d, st) ==
    LET Known(index) == R(KnownTypeValue(index.st.typeTable, index.v), index.st)
    IN  Known(read7BitEncodedInt(d, st))

-----------------------------------------------------------------------------
(* Scanning text for readable content *)

\* String.fromCharCode.apply(null, bytes): one unit per octet
BinaryString(bytes) == bytes

\* str.indexOf(pat, from): a 0-based offset, or -1
IndexOf(str, pat, from) ==
    LET at == {i \in Max(from, 0)..(Len(str) - Len(pat)) :
                  SubSeq(str, i + 1, i + Len(pat)) = pat}
    IN  IF at = {} THEN -1 ELSE CHOOSE i \in at : \A j \in at : i <= j

Includes(str, pat) == IndexOf(str, pat, 0) # -1
StartsWith(str, pat) == Len(str) >= Len(pat) /\ SubSeq(str, 1, Len(pat)) = pat
AllIn(str, from, Class(_)) == \A i \in from..Len(str) : Class(str[i])

IsHexDigit(c) == IsDigit(c) \/ (c >= 65 /\ c <= 70) \/ (c >= 97 /\ c <= 102)
IsPadChar(c) == c \in {43, 47, 61}                 \* + / =
IsTypeChar(c) == (c >= 65 /\ c <= 90) \/ (c >= 97 /\ c <= 122) \/ c = 46
IsPrintable(c) == c >= 32 /\ c <= 126
\* what \s matches
IsSpace(c) ==
    c \in {9, 10, 11, 12, 13, 32, 160, 5760, 8232, 8233, 8239, 8287, 12288, 65279}
    \/ (c >= 8192 /\ c <= 8202)

isNoiseString(str) ==
    \/ (Len(str) >= 1 /\ AllIn(str, 1, IsDigit))
    \/ (Len(str) >= 1 /\ AllIn(str, 1, IsHexDigit))
    \/ (Len(str) >= 2 /\ Len(str) % 2 = 0
        /\ \A i \in 1..(Len(str) \div 2) :
              SubSeq(str, 2 * i - 1, 2 * i) \in {<<65, 65>>, <<61, 61>>})
    \/ (Len(str) >= 1 /\ AllIn(str, 1, IsPadChar))
    \/ (StartsWith(str, Lit.ctl) /\ Len(str) > 3 /\ AllIn(str, 4, IsDigit))
    \/ (StartsWith(str, Lit.ImageButton) /\ Len(str) > 11 /\ AllIn(str, 12, IsDigit))

\* the run collected so far is kept or dropped when a non-printable unit ends it
KeepInnerRun(current) ==
    /\ Len(current) >= 4
    /\ ~StartsWith(current, Lit.xml)
    /\ ~Includes(current, Lit.xs)
    /\ ~isNoiseString(current)

RECURSIVE readableRuns(_, _, _, _)
readableRuns(str, i, current, strings) ==
    IF i > Len(str)
    THEN IF Len(current) >= 4 /\ ~isNoiseString(current)
         THEN Append(strings, current) ELSE strings
    ELSE IF IsPrintable(str[i])
         THEN readableRuns(str, i + 1, Append(current, str[i]), strings)
    ELSE readableRuns(str, i + 1, <<>>,
                      IF KeepInnerRun(current) THEN Append(strings, current) ELSE strings)

\* [...new Set(strings)]: the first occurrence of each, in order
RECURSIVE Unique(_, _, _)
Unique(q, i, acc) ==
    IF i > Len(q) THEN acc
    ELSE Unique(q, i + 1,
                IF \E j \in 1..Len(acc) : acc[j] = q[i] THEN acc ELSE Append(acc, q[i]))

extractReadableStrings(binaryString) ==
    LET First200(unique) == SubSeq(unique, 1, Min(Len(unique), 200))
    IN  First200(Unique(readableRuns(binaryString, 1, <<>>, <<>>), 1, <<>>))

\* every match of the literal pat in str, left to right
RECURSIVE LiteralMatches(_, _, _)
LiteralMatches(str, pat, from) ==
    LET at == IndexOf(str, pat, from)
    IN  IF at = -1 THEN <<>>
        ELSE <<pat>> \o LiteralMatches(str, pat, at + Len(pat))

\* the end (exclusive, 0-based) of the run of type characters starting at i
RECURSIVE TypeRunEnd(_, _)
TypeRunEnd(str, i) ==
    IF i < Len(str) /\ IsTypeChar(str[i + 1]) THEN TypeRunEnd(str, i + 1) ELSE i

\* every match of /System\.[A-Za-z.]+/g in str, left to right
RECURSIVE SystemMatches(_, _)
SystemMatches(str, from) ==
    LET at == IndexOf(str, Lit.System, from)
        end == TypeRunEnd(str, at + 7)
    IN  IF at = -1 THEN <<>>
        ELSE IF end = at + 7 THEN SystemMatches(str, at + 1)
        ELSE <<SubSeq(str, at + 1, end)>> \o SystemMatches(str, end)

extractTypeInfo(binaryString) ==
    Unique(LiteralMatches(binaryString, Lit.SystemDataDataTable, 0)
           \o LiteralMatches(binaryString, Lit.System \o <<68, 97, 116, 97, 46, 68, 97, 116, 97, 83, 101, 116>>, 0)
           \o LiteralMatches(binaryString, Lit.System \o <<86, 101, 114, 115, 105, 111, 110>>, 0)
           \o SystemMatches(binaryString, 0), 1, <<>>)

\* The scraped table and column names are not modelled: the result carries
\* the text they would be scraped from.
parseXmlSchema(xmlContent) ==
    LET base == Obj(<<Lit.type, Lit.tables, Lit.columns, Lit.raw>>,
                    <<Str(Lit.DataTableSchema), Arr(<<>>), Arr(<<>>), Str(xmlContent)>>)
    IN  IF Includes(xmlContent, Lit.diffgram)
        THEN ObjSet(base, Lit.hasDiffgram, Bool(TRUE)) ELSE base

RECURSIVE xmlBlocks(_, _)
xmlBlocks(str, startIndex) ==
    LET Pick(xmlStart, schemaStart, diffStart) ==
            IF xmlStart # -1 /\ (schemaStart = -1 \/ xmlStart < schemaStart)
               /\ (diffStart = -1 \/ xmlStart < diffStart)
            THEN [foundStart |-> xmlStart, endTag |-> Lit.xsSchemaEnd]
            ELSE IF schemaStart # -1 /\ (diffStart = -1 \/ schemaStart < diffStart)
            THEN [foundStart |-> schemaStart, endTag |-> Lit.xsSchemaEnd]
            ELSE IF diffStart # -1
            THEN [foundStart |-> diffStart, endTag |-> Lit.diffgramEnd]
            ELSE [foundStart |-> -1, endTag |-> <<>>]
        EndIndex(found, tagAt) ==
            IF tagAt = -1 THEN Min(found.foundStart + 5000, Len(str))
            ELSE tagAt + Len(found.endTag)
        Block(found, endIndex) ==
            IF found.foundStart = -1 THEN <<>>
            ELSE (IF endIndex - found.foundStart > 20
                  THEN <<parseXmlSchema(SubSeq(str, found.foundStart + 1, endIndex))>>
                  ELSE <<>>)
                 \o xmlBlocks(str, endIndex)
        Ended(found) ==
            Block(found, EndIndex(found, IndexOf(str, found.endTag, found.foundStart)))
    IN  Ended(Pick(IndexOf(str, Lit.xml, startIndex), IndexOf(str, Lit.xsSchema, startIndex),
                   IndexOf(str, Lit.diffgr, startIndex)))

extractXmlContent(binaryString) == xmlBlocks(binaryString, 0)

StrArr(strings) == Arr([i \in 1..Len(strings) |-> Str(strings[i])])

extractBinaryObjectContent(bytes) ==
    LET Content(str, strings) ==
            LET isTable == Includes(str, Lit.SystemDataDataTable)
                schemaStart == IndexOf(str, Lit.xml, 0)
                schemaEnd == IndexOf(str, Lit.xsSchemaEnd, 0)
                Typed(r) == IF isTable THEN ObjSet(r, Lit.objectType, Str(Lit.DataTable))
                            ELSE r
                Schema(r) ==
                    IF isTable /\ schemaStart # -1 /\ schemaEnd # -1
                    THEN ObjSet(r, Lit.schema,
                                parseXmlSchema(SubSeq(str, schemaStart + 1, schemaEnd + 12)))
                    ELSE r
                Diffgram(r) ==
                    IF isTable /\ Includes(str, Lit.diffgram) /\ Includes(str, Lit.diffgramEnd)
                    THEN ObjSet(r, Lit.hasDiffgram, Bool(TRUE)) ELSE r
                Strings(r) ==
                    IF Len(strings) > 0
                    THEN ObjSet(r, Lit.extractedStrings,
                                StrArr(SubSeq(strings, 1, Min(Len(strings), 50))))
                    ELSE r
            IN  Strings(Diffgram(Schema(Typed(EmptyObj))))
    IN  Content(BinaryString(bytes), extractReadableStrings(BinaryString(bytes)))

-----------------------------------------------------------------------------
(* Decoder: the tag dispatch and the composite bodies *)

MaxCount == 10000
SparseCap == 1000
TypedArrayCap == 1000

RECURSIVE parseObject(_, _)
RECURSIVE parseItems(_, _, _, _, _)
RECURSIVE parseItemsUnguarded(_, _, _, _, _)
RECURSIVE parseEntries(_, _, _, _, _)
RECURSIVE parseSparseEntries(_, _, _, _, _)

\* a plausible slip: the loop runs to the declared length whatever is left
\* of the buffer
parseItemsUnguarded(d, st, length, i, array) ==
    LET Rest(half) == parseItemsUnguarded(d, half.st, length, i + (length - i) \div 2, half.v)
        Pushed(item) == R(Append(array, item.v), item.st)
    IN  IF Thrown(st) \/ ~(i < length) THEN R(array, st)
        ELSE IF length - i = 1 THEN Pushed(parseObject(d, st))
        ELSE Rest(parseItemsUnguarded(d, st, i + (length - i) \div 2, i, array))

\* for (i = 0; i < length && this.position < this.data.length; i++) push(parseObject()):
\* the iterations from i to length - 1, run as two halves one after the other
\* when there is more than one of them
parseItems(d, st, length, i, array) ==
    LET Rest(half) == parseItems(d, half.st, length, i + (length - i) \div 2, half.v)
        Pushed(item) == R(Append(array, item.v), item.st)
    IN  IF Thrown(st) \/ ~(i < length /\ st.position < Len(d)) THEN R(array, st)
        ELSE IF length - i = 1 THEN Pushed(parseObject(d, st))
        ELSE Rest(parseItems(d, st, i + (length - i) \div 2, i, array))

parsePair(d, st) ==
    LET first == parseObject(d, Count(st, "pairs"))
        second == parseObject(d, first.st)
    IN  R(Obj(<<Lit.type, Lit.first, Lit.second>>,
              <<Str(Lit.Pair), first.v, second.v>>), second.st)

parseTriplet(d, st) ==
    LET first == parseObject(d, Count(st, "triplets"))
        second == parseObject(d, first.st)
        third == parseObject(d, second.st)
    IN  R(Obj(<<Lit.type, Lit.first, Lit.second, Lit.third>>,
              <<Str(Lit.Triplet), first.v, second.v, third.v>>), third.st)

parseArray(d, st) ==
    LET Items(items) == R(Arr(items.v), items.st)
        Counted(length) ==
            IF length.v > MaxCount THEN R(Arr(<<>>), length.st)
            ELSE Items(parseItems(d, length.st, length.v, 0, <<>>))
    IN  Counted(read7BitEncodedInt(d, Count(st, "arrays")))

\* a plausible slip: the count is not checked
parseArrayListUnchecked(d, st) ==
    LET Items(items) == R(Arr(items.v), items.st)
        Counted(count) == Items(parseItems(d, count.st, count.v, 0, <<>>))
    IN  Counted(read7BitEncodedInt(d, Count(st, "arrays")))

\* a plausible slip: the loop stops one item short
parseArrayListOneShort(d, st) ==
    LET Items(items) == R(Arr(items.v), items.st)
        Counted(count) ==
            IF count.v > MaxCount THEN R(Arr(<<>>), count.st)
            ELSE Items(parseItems(d, count.st, count.v - 1, 0, <<>>))
    IN  Counted(read7BitEncodedInt(d, Count(st, "arrays")))

parseArrayList(d, st) ==
    LET Items(items) == R(Arr(items.v), items.st)
        Counted(count) ==
            IF count.v > MaxCount THEN R(Arr(<<>>), count.st)
            ELSE Items(parseItems(d, count.st, count.v, 0, <<>>))
    IN  Counted(read7BitEncodedInt(d, Count(st, "arrays")))

parseEntries(d, st, count, i, res) ==
    IF Thrown(st) \/ ~(i < count /\ st.position < Len(d)) THEN R(res, st)
    ELSE LET key == parseObject(d, st)
             value == parseObject(d, key.st)
         IN  IF Thrown(value.st) THEN R(res, value.st)
             ELSE parseEntries(d, value.st, count, i + 1,
                               ObjSet(res, ToStringJS(key.v), value.v))

parseHashtable(d, st) ==
    LET Counted(count) ==
            IF count.v > MaxCount THEN R(EmptyObj, count.st)
            ELSE parseEntries(d, count.st, count.v, 0, EmptyObj)
    IN  Counted(read7BitEncodedInt(d, st))

\* result[index] = value when index < result.length; a negative index names a
\* property that is no element, and leaves the elements as they are
parseSparseEntries(d, st, count, i, res) ==
    IF Thrown(st) \/ ~(i < count /\ st.position < Len(d)) THEN R(res, st)
    ELSE LET index == read7BitEncodedInt(d, st)
             value == parseObject(d, index.st)
         IN  IF Thrown(value.st) THEN R(res, value.st)
             ELSE parseSparseEntries(d, value.st, count, i + 1,
                      IF index.v >= 0 /\ index.v < Len(res)
                      THEN [res EXCEPT ![index.v + 1] = value.v] ELSE res)

parseSparseArray(d, st) ==
    LET Entries(entries) == R(Arr(entries.v), entries.st)
        Counted(length, count) ==
            IF length.v > MaxCount THEN R(Arr(<<>>), count.st)
            ELSE IF Min(length.v, SparseCap) < 0
                 THEN R(Null, Throw(count.st, "Invalid array length"))
            ELSE Entries(parseSparseEntries(d, count.st, count.v, 0,
                            [i \in 1..Min(length.v, SparseCap) |-> Null]))
        Sized(length) == Counted(length, read7BitEncodedInt(d, length.st))
    IN  Sized(read7BitEncodedInt(d, Count(st, "arrays")))

\* the object once its declared length is read
binaryObject(d, length) ==
    IF length.v > Len(d) - length.st.position \/ length.v < 0
    THEN R(Obj(<<Lit.type, Lit.size>>, <<Str(Lit.BinaryObject), Num(length.v)>>),
           length.st)
    ELSE R(Obj(<<Lit.type, Lit.size, Lit.content>>,
               <<Str(Lit.BinarySerializedObject), Num(length.v),
                 extractBinaryObjectContent(readBytes(d, length.st, length.v).v)>>),
           readBytes(d, length.st, length.v).st)

parseBinaryObject(d, st) == binaryObject(d, read7BitEncodedInt(d, Count(st, "objects")))

parseTypedArray(d, st) ==
    LET Items(typeIndex, items) ==
            R(Obj(<<Lit.type, Lit.typeIndex, Lit.items>>,
                  <<Str(Lit.TypedArray), Num(typeIndex.v), Arr(items.v)>>), items.st)
        Sized(typeIndex, length) ==
            Items(typeIndex, parseItems(d, length.st, Min(length.v, TypedArrayCap), 0, <<>>))
        Typed(typeIndex) == Sized(typeIndex, read7BitEncodedInt(d, typeIndex.st))
    IN  Typed(read7BitEncodedInt(d, Count(st, "arrays")))

\* /^[\x20-\x7E\s]+$/.test(str)
IsReadable(str) ==
    Len(str) > 0 /\ \A i \in 1..Len(str) : IsPrintable(str[i]) \/ IsSpace(str[i])

UnknownValue(marker, pos) ==
    Obj(<<Lit.type, Lit.marker, Lit.position>>,
        <<Str(Lit.Unknown),
          Str(<<48, 120, HexDigit(marker \div 16), HexDigit(marker % 16)>>),
          Num(pos - 1)>>)

\* tryRecoverParse stepping back over two octets instead of one
tryRecoverParseTwoBack(d, st, marker) ==
    LET Recovered(possibleString) ==
            IF IsReadable(possibleString.v)
            THEN R(Str(possibleString.v), possibleString.st)
            ELSE R(UnknownValue(marker, possibleString.st.position), possibleString.st)
    IN  IF marker > 0 /\ marker < 128
        THEN Recovered(readString(d, SetPos(st, Max(st.position - 2, 0))))
        ELSE R(UnknownValue(marker, st.position), st)

tryRecoverParse(d, st, marker) ==
    LET Recovered(possibleString) ==
            IF IsReadable(possibleString.v)
            THEN R(Str(possibleString.v), possibleString.st)
            ELSE R(UnknownValue(marker, possibleString.st.position), possibleString.st)
    IN  IF marker > 0 /\ marker < 128
        THEN Recovered(readString(d, SetPos(st, st.position - 1)))
        ELSE R(UnknownValue(marker, st.position), st)

\* a plausible slip: 0x66 and 0x67 read as the editor writes them, true and false
parseTagAsEditor(d, st, typeMarker) ==
    LET AsNum(n) == R(Num(n.v), n.st)
        AsStr(str) == R(Str(str.v), str.st)
        Interned(str) == R(Str(str.v), [str.st EXCEPT !.stringTable = Append(@, str.v)])
        Referred(idx, value) ==
            R(value, [idx.st EXCEPT !.refs = Append(@,
                [index |-> idx.v, writes |-> idx.st.stringTable, value |-> value])])
        Indexed(idx) == Referred(idx, StringRefValue(idx.st.stringTable, idx.v))
    IN  CASE typeMarker = 1 -> parseInt16(d, st)
          [] typeMarker = 2 -> AsNum(read7BitEncodedInt(d, Count(st, "integers")))
          [] typeMarker = 3 -> AsNum(readByte(d, Count(st, "integers")))
          [] typeMarker = 4 -> LET b == readByte(d, st) IN R(Str(<<b.v>>), b.st)
          [] typeMarker = 5 -> AsStr(readString(d, st))
          [] typeMarker = 6 -> parseDateTime(d, st)
          [] typeMarker = 7 -> parseDouble(d, st)
          [] typeMarker = 8 -> parseFloat(d, st)
          [] typeMarker = 9 -> parseColor(d, st)
          [] typeMarker = 10 -> R(Null, st)
          [] typeMarker = 11 -> R(Bool(TRUE), Count(st, "booleans"))
          [] typeMarker = 12 -> R(Bool(FALSE), Count(st, "booleans"))
          [] typeMarker = 15 -> parsePair(d, st)
          [] typeMarker = 16 -> parseTriplet(d, st)
          [] typeMarker \in {20, 21} -> parseArray(d, st)
          [] typeMarker = 22 -> parseArrayList(d, st)
          [] typeMarker \in {23, 24} -> parseHashtable(d, st)
          [] typeMarker = 25 -> parseType(d, st)
          [] typeMarker = 27 -> parseUnit(d, st)
          [] typeMarker = 30 -> Interned(readString(d, st))
          [] typeMarker = 31 -> Indexed(read7BitEncodedInt(d, st))
          [] typeMarker = 40 -> parseSparseArray(d, st)
          [] typeMarker \in {41, 42} -> parseBinaryObject(d, st)
          [] typeMarker = 50 -> parseTypedArray(d, st)
          [] typeMarker = 60 -> parseKnownType(d, st)
          [] typeMarker = 100 -> R(Null, st)
          [] typeMarker = 101 -> R(Str(<<>>), st)
          [] typeMarker = 102 -> R(Bool(TRUE), Count(st, "booleans"))
          [] typeMarker = 103 -> R(Bool(FALSE), Count(st, "booleans"))
          [] typeMarker = 104 -> R(Bool(FALSE), Count(st, "booleans"))
          [] OTHER -> tryRecoverParse(d, st, typeMarker)

parseTag(d, st, typeMarker) ==
    LET AsNum(n) == R(Num(n.v), n.st)
        AsStr(str) == R(Str(str.v), str.st)
        Interned(str) == R(Str(str.v), [str.st EXCEPT !.stringTable = Append(@, str.v)])
        Referred(idx, value) ==
            R(value, [idx.st EXCEPT !.refs = Append(@,
                [index |-> idx.v, writes |-> idx.st.stringTable, value |-> value])])
        Indexed(idx) == Referred(idx, StringRefValue(idx.st.stringTable, idx.v))
    IN  CASE typeMarker = 1 -> parseInt16(d, st)
          [] typeMarker = 2 -> AsNum(read7BitEncodedInt(d, Count(st, "integers")))
          [] typeMarker = 3 -> AsNum(readByte(d, Count(st, "integers")))
          [] typeMarker = 4 -> LET b == readByte(d, st) IN R(Str(<<b.v>>), b.st)
          [] typeMarker = 5 -> AsStr(readString(d, st))
          [] typeMarker = 6 -> parseDateTime(d, st)
          [] typeMarker = 7 -> parseDouble(d, st)
          [] typeMarker = 8 -> parseFloat(d, st)
          [] typeMarker = 9 -> parseColor(d, st)
          [] typeMarker = 10 -> R(Null, st)
          [] typeMarker = 11 -> R(Bool(TRUE), Count(st, "booleans"))
          [] typeMarker = 12 -> R(Bool(FALSE), Count(st, "booleans"))
          [] typeMarker = 15 -> parsePair(d, st)
          [] typeMarker = 16 -> parseTriplet(d, st)
          [] typeMarker \in {20, 21} -> parseArray(d, st)
          [] typeMarker = 22 -> parseArrayList(d, st)
          [] typeMarker \in {23, 24} -> parseHashtable(d, st)
          [] typeMarker = 25 -> parseType(d, st)
          [] typeMarker = 27 -> parseUnit(d, st)
          [] typeMarker = 30 -> Interned(readString(d, st))
          [] typeMarker = 31 -> Indexed(read7BitEncodedInt(d, st))
          [] typeMarker = 40 -> parseSparseArray(d, st)
          [] typeMarker \in {41, 42} -> parseBinaryObject(d, st)
          [] typeMarker = 50 -> parseTypedArray(d, st)
          [] typeMarker = 60 -> parseKnownType(d, st)
          [] typeMarker = 100 -> R(Null, st)
          [] typeMarker = 101 -> R(Str(<<>>), st)
          [] typeMarker = 102 -> R(Num(0), Count(st, "integers"))
          [] typeMarker = 103 -> R(Bool(TRUE), Count(st, "booleans"))
          [] typeMarker = 104 -> R(Bool(FALSE), Count(st, "booleans"))
          [] OTHER -> tryRecoverParse(d, st, typeMarker)

\* what a parseObject call returns, noted as it returns: the tag it read, the
\* offset of that tag and the offset the cursor is left at
Spanned(r, typeMarker, from) ==
    IF Thrown(r.st) THEN r
    ELSE R(r.v, [r.st EXCEPT !.spans = Append(@,
                    [tag |-> typeMarker, from |-> from, to |-> r.st.position])])

\* a call made after an exception was raised does not happen
parseObject(d, st) ==
    IF Thrown(st) THEN R(Null, st)
    ELSE LET st0 == [st EXCEPT !.calls = @ + 1]
         IN  IF st0.position >= Len(d) THEN R(Null, st0)
             ELSE LET typeMarker == readByte(d, st0)
                  IN  Spanned(parseTag(d, typeMarker.st, typeMarker.v),
                              typeMarker.v, st0.position)

\* a plausible slip: the version octet is not read
parseViewStateKeepVersion(d, st) ==
    LET marker == readByte(d, st)
    IN  IF Len(d) = 0 THEN R(Null, Throw(st, "Empty ViewState data"))
        ELSE parseObject(d, IF marker.v = 255 THEN marker.st ELSE SetPos(marker.st, 0))

parseViewState(d, st) ==
    LET marker == readByte(d, st)
    IN  IF Len(d) = 0 THEN R(Null, Throw(st, "Empty ViewState data"))
        ELSE parseObject(d, IF marker.v = 255 THEN readByte(d, marker.st).st
                            ELSE SetPos(marker.st, 0))

-----------------------------------------------------------------------------
(* Text in, octets out: trim, decodeURIComponent, atob, btoa *)

\* str.trim()
RECURSIVE TrimLeft(_)
TrimLeft(str) ==
    IF Len(str) > 0 /\ IsSpace(str[1]) THEN TrimLeft(Tail(str)) ELSE str
RECURSIVE TrimRight(_)
TrimRight(str) ==
    IF Len(str) > 0 /\ IsSpace(str[Len(str)])
    THEN TrimRight(SubSeq(str, 1, Len(str) - 1)) ELSE str
Trim(str) == TrimRight(TrimLeft(str))

HexValue(c) == IF IsDigit(c) THEN c - 48 ELSE IF c >= 97 THEN c - 87 ELSE c - 55

\* str has an escape %XX at 1-based position i
IsEscapeAt(str, i) ==
    i + 2 <= Len(str) /\ str[i] = 37 /\ IsHexDigit(str[i + 1]) /\ IsHexDigit(str[i + 2])
EscapeAt(str, i) == 16 * HexValue(str[i + 1]) + HexValue(str[i + 2])

\* decodeURIComponent(str) from position i on: [ok, s]; ok is FALSE where
\* the function raises URIError
RECURSIVE decodeURIFrom(_, _)
decodeURIFrom(str, i) ==
    IF i > Len(str) THEN [ok |-> TRUE, s |-> <<>>]
    ELSE IF str[i] # 37
         THEN LET rest == decodeURIFrom(str, i + 1)
              IN  [ok |-> rest.ok, s |-> <<str[i]>> \o rest.s]
    ELSE IF ~IsEscapeAt(str, i) THEN [ok |-> FALSE, s |-> <<>>]
    ELSE LET b == EscapeAt(str, i)
             need == Needed(b)
             octets == [j \in 1..(need + 1) |-> EscapeAt(str, i + 3 * (j - 1))]
             rest == decodeURIFrom(str, i + 3 * (need + 1))
         IN  IF need = -1 THEN [ok |-> FALSE, s |-> <<>>]
             ELSE IF \E j \in 1..need : ~IsEscapeAt(str, i + 3 * j)
                  THEN [ok |-> FALSE, s |-> <<>>]
             ELSE IF Continues(octets, 1, need + 1, 1, need) < need
                  THEN [ok |-> FALSE, s |-> <<>>]
             ELSE [ok |-> rest.ok, s |-> DecodeOctets(octets, 1, need + 1) \o rest.s]

decodeURIComponent(str) == decodeURIFrom(str, 1)

\* the value of a character of the Base64 alphabet, or -1
Sextet(c) ==
    IF c >= 65 /\ c <= 90 THEN c - 65
    ELSE IF c >= 97 /\ c <= 122 THEN c - 71
    ELSE IF c >= 48 /\ c <= 57 THEN c + 4
    ELSE IF c = 43 THEN 62
    ELSE IF c = 47 THEN 63
    ELSE -1

SextetChar(v) ==
    IF v < 26 THEN 65 + v
    ELSE IF v < 52 THEN 71 + v
    ELSE IF v < 62 THEN v - 4
    ELSE IF v = 62 THEN 43 ELSE 47

IsNotAsciiSpace(c) == c \notin {9, 10, 12, 13, 32}

\* the octets of the sextets q[lo..], four sextets to three octets; a last
\* group of two or three sextets gives one or two octets
RECURSIVE SextetsToOctets(_, _)
SextetsToOctets(q, lo) ==
    LET left == Len(q) - lo + 1
        bits == IF left >= 4
                THEN ((q[lo] * 64 + q[lo + 1]) * 64 + q[lo + 2]) * 64 + q[lo + 3]
                ELSE IF left = 3 THEN ((q[lo] * 64 + q[lo + 1]) * 64 + q[lo + 2]) * 64
                ELSE IF left = 2 THEN (q[lo] * 64 + q[lo + 1]) * 4096
                ELSE 0
        three == <<bits \div 65536, (bits \div 256) % 256, bits % 256>>
    IN  IF left <= 0 THEN <<>>
        ELSE IF left >= 4 THEN three \o SextetsToOctets(q, lo + 4)
        ELSE SubSeq(three, 1, left - 1)

\* atob(str): [ok, bytes]; ok is FALSE where atob raises InvalidCharacterError
atob(str) ==
    LET s1 == SelectSeq(str, IsNotAsciiSpace)
        n1 == Len(s1)
        s2 == IF n1 % 4 = 0 /\ n1 > 0 /\ s1[n1] = 61
              THEN IF s1[n1 - 1] = 61 THEN SubSeq(s1, 1, n1 - 2)
                   ELSE SubSeq(s1, 1, n1 - 1)
              ELSE s1
        sextets == [i \in 1..Len(s2) |-> Sextet(s2[i])]
    IN  IF Len(s2) % 4 = 1 \/ (\E i \in 1..Len(s2) : sextets[i] = -1)
        THEN [ok |-> FALSE, bytes |-> <<>>]
        ELSE [ok |-> TRUE, bytes |-> SextetsToOctets(sextets, 1)]

\* btoa(binary), with = padding
RECURSIVE btoa(_)
btoa(bytes) ==
    LET n == Len(bytes)
        b1 == bytes[1]
        b2 == IF n >= 2 THEN bytes[2] ELSE 0
        b3 == IF n >= 3 THEN bytes[3] ELSE 0
        bits == (b1 * 256 + b2) * 256 + b3
        four == <<SextetChar(bits \div 262144), SextetChar((bits \div 4096) % 64),
                  IF n >= 2 THEN SextetChar((bits \div 64) % 64) ELSE 61,
                  IF n >= 3 THEN SextetChar(bits % 64) ELSE 61>>
    IN  IF n = 0 THEN <<>>
        ELSE IF n <= 3 THEN four
        ELSE four \o btoa(SubSeq(bytes, 4, n))

-----------------------------------------------------------------------------
(* Decoder: decode and its fallback *)

SuggestionText == "Make sure the input is a valid Base64-encoded ASP.NET ViewState string"
NoteText == "Parsed using content extraction mode"

\* structured && Object.keys(structured).length > 0
HasOwnKeys(v) ==
    CASE v.k = "str" -> Len(v.s) > 0
      [] v.k = "arr" -> Len(v.items) > 0
      [] v.k = "obj" -> Len(v.keys) > 0
      [] OTHER -> FALSE

\* a plausible slip: the cursor is left where the first parse stopped
extractAllContentNoRewind(d, st) ==
    LET Xml(c, xmlMatches) ==
            IF Len(xmlMatches) > 0 THEN ObjSet(c, Lit.xmlSchemas, Arr(xmlMatches)) ELSE c
        Types(c, typeInfo) ==
            IF Len(typeInfo) > 0 THEN ObjSet(c, Lit.dotNetTypes, StrArr(typeInfo)) ELSE c
        Strings(c, strings) ==
            IF Len(strings) > 0 THEN ObjSet(c, Lit.strings, StrArr(strings)) ELSE c
        Structure(c, structured) ==
            R(Obj(<<Lit.type, Lit.format, Lit.content>>,
                  <<Str(Lit.ViewState), Str(Lit.LosFormatter),
                    IF ~Thrown(structured.st) /\ HasOwnKeys(structured.v)
                    THEN ObjSet(c, Lit.structure, structured.v) ELSE c>>),
              [structured.st EXCEPT !.thrown = ""])
    IN  Structure(Strings(Types(Xml(EmptyObj, extractXmlContent(BinaryString(d))),
                                extractTypeInfo(BinaryString(d))),
                          extractReadableStrings(BinaryString(d))),
                  parseViewState(d, [st EXCEPT !.thrown = ""]))

\* the position is set back to 0 and the buffer parsed again, on the tables
\* and counters the failed parse left
extractAllContent(d, st) ==
    LET Xml(c, xmlMatches) ==
            IF Len(xmlMatches) > 0 THEN ObjSet(c, Lit.xmlSchemas, Arr(xmlMatches)) ELSE c
        Types(c, typeInfo) ==
            IF Len(typeInfo) > 0 THEN ObjSet(c, Lit.dotNetTypes, StrArr(typeInfo)) ELSE c
        Strings(c, strings) ==
            IF Len(strings) > 0 THEN ObjSet(c, Lit.strings, StrArr(strings)) ELSE c
        Structure(c, structured) ==
            R(Obj(<<Lit.type, Lit.format, Lit.content>>,
                  <<Str(Lit.ViewState), Str(Lit.LosFormatter),
                    IF ~Thrown(structured.st) /\ HasOwnKeys(structured.v)
                    THEN ObjSet(c, Lit.structure, structured.v) ELSE c>>),
              [structured.st EXCEPT !.thrown = ""])
    IN  Structure(Strings(Types(Xml(EmptyObj, extractXmlContent(BinaryString(d))),
                                extractTypeInfo(BinaryString(d))),
                          extractReadableStrings(BinaryString(d))),
                  parseViewState(d, [SetPos(st, 0) EXCEPT !.thrown = ""]))

\* a plausible slip: the inner atob is not guarded, and what it leaves is used
\* what fallbackDecode returns once atob and the extractor have returned
fallbackResult(binary, extracted, originalError, st, oldData) ==
    IF ~binary.ok
    THEN [result |-> [success |-> FALSE, error |-> originalError,
                      suggestion |-> SuggestionText],
          st |-> st, data |-> oldData, raised |-> originalError]
    ELSE [result |-> [success |-> TRUE, data |-> extracted.v,
                      stats |-> extracted.st.stats, rawSize |-> Len(binary.bytes),
                      note |-> NoteText],
          st |-> extracted.st, data |-> binary.bytes, raised |-> originalError]

fallbackDecodeUnguarded(inputText, originalError, st, oldData) ==
    fallbackResult([ok |-> TRUE, bytes |-> atob(inputText).bytes],
                   extractAllContent(atob(inputText).bytes, st),
                   originalError, st, oldData)

\* [result, st, data, raised]: what the call returns, the fields it leaves and
\* the message of the exception that led to the fallback ("" when none did)
fallbackDecode(inputText, originalError, st, oldData) ==
    fallbackResult(atob(inputText), extractAllContent(atob(inputText).bytes, st),
                   originalError, st, oldData)

\* the text handed to atob: trimmed, and URL-decoded when it holds a '%' and
\* the URL-decoding does not fail
cleanedInput(viewStateString) ==
    LET trimmed == Trim(viewStateString)
        unescaped == decodeURIComponent(trimmed)
    IN  IF Includes(trimmed, <<37>>) /\ unescaped.ok THEN unescaped.s ELSE trimmed

\* a plausible slip: decode() keeps the tables and the counters of the
\* instance
KeptState == DecState(0, stringTable, typeTable, stats, <<0>>)

\* the fields decode() resets before it does anything else
ResetState == DecState(0, <<>>, <<>>, ZeroStats, <<0>>)

\* decode() from the end of its try block: the result, or the catch
decodeParsed(text, binary, parsed, oldData) ==
    IF ~binary.ok \/ Thrown(parsed.st)
    THEN fallbackDecode(text,
            IF ~binary.ok THEN "InvalidCharacterError" ELSE parsed.st.thrown,
            IF ~binary.ok THEN ResetState ELSE [parsed.st EXCEPT !.thrown = ""],
            IF ~binary.ok THEN oldData ELSE binary.bytes)
    ELSE [result |-> [success |-> TRUE, data |-> parsed.v,
                      stats |-> parsed.st.stats, rawSize |-> Len(binary.bytes)],
          st |-> parsed.st, data |-> binary.bytes, raised |-> ""]

\* decode() from its try block on
decodeCleaned(text, oldData) ==
    decodeParsed(text, atob(text), parseViewState(atob(text).bytes, ResetState), oldData)

decode(viewStateString, oldData) == decodeCleaned(cleanedInput(viewStateString), oldData)

-----------------------------------------------------------------------------
(* Editor: JSON in, octets out *)

\* JSON.parse builds each object member by member: a repeated name keeps its
\* first place and its last value, and index-like names enumerate first
RECURSIVE JSONparse(_)
RECURSIVE JSONmembers(_, _, _)
JSONparse(doc) ==
    CASE doc.k = "arr" -> Arr([i \in 1..Len(doc.items) |-> JSONparse(doc.items[i])])
      [] doc.k = "obj" -> JSONmembers(doc, 1, EmptyObj)
      [] OTHER -> doc
JSONmembers(doc, i, o) ==
    IF i > Len(doc.keys) THEN o
    ELSE JSONmembers(doc, i + 1, ObjSet(o, doc.keys[i], JSONparse(doc.vals[i])))

\* a number too wide for Num: the integer w.hi * 2^28 + w.lo
Big(w) == [k |-> "big", w |-> w]

\* !value
IsFalsy(v) ==
    \/ v.k = "null"
    \/ (v.k = "bool" /\ ~v.b)
    \/ (v.k = "num" /\ v.n = 0)
    \/ (v.k = "str" /\ v.s = <<>>)

\* obj.<key>, undefined (which serializes as null does) when there is none
Field(o, key) == IF HasKey(o, key) THEN ObjGet(o, key) ELSE Null

IsTyped(o, name) == HasKey(o, Lit.type) /\ ObjGet(o, Lit.type) = Str(name)

serializeDouble(value) == <<7>> \o value.bytes

RECURSIVE serializeObject(_)
RECURSIVE serializeItems(_, _)
RECURSIVE serializeEntries(_, _, _)

\* the octets of the items from the i-th on, one after the other
serializeItems(arr, i) ==
    IF i > Len(arr) THEN <<>>
    ELSE serializeObject(arr[i]) \o serializeItems(arr, i + 1)

serializeArray(arr) ==
    Uint8Array(<<106>> \o encode7BitInt(ToWide(Len(arr))) \o serializeItems(arr, 1))

serializePair(pair) ==
    <<104>> \o serializeObject(Field(pair, Lit.first))
            \o serializeObject(Field(pair, Lit.second))

serializeTriplet(triplet) ==
    <<105>> \o serializeObject(Field(triplet, Lit.first))
            \o serializeObject(Field(triplet, Lit.second))
            \o serializeObject(Field(triplet, Lit.third))

serializeEntries(obj, keys, i) ==
    IF i > Len(keys) THEN <<>>
    ELSE serializeString(keys[i]) \o serializeObject(ObjGet(obj, keys[i]))
         \o serializeEntries(obj, keys, i + 1)

IsNotTypeKey(key) == key # Lit.type

serializeHashtable(obj) ==
    LET keys == SelectSeq(obj.keys, IsNotTypeKey)
    IN  Uint8Array(<<23>> \o encode7BitInt(ToWide(Len(keys))))
        \o serializeEntries(obj, keys, 1)

serializeObject(obj) ==
    CASE obj.k = "null" -> <<100>>
      [] obj.k = "bool" -> <<IF obj.b THEN 102 ELSE 103>>
      [] obj.k = "num" ->
            IF obj.n >= 0 /\ obj.n <= 255 THEN Uint8Array(<<3, obj.n>>)
            ELSE serializeInt32(ToWide(obj.n))
      [] obj.k = "big" -> serializeInt32(obj.w)
      [] obj.k \in {"f64", "f32"} -> serializeDouble(obj)
      [] obj.k = "str" -> serializeString(obj.s)
      [] obj.k = "arr" -> serializeArray(obj.items)
      [] obj.k = "obj" ->
            IF IsTyped(obj, Lit.Pair) THEN serializePair(obj)
            ELSE IF IsTyped(obj, Lit.Triplet) THEN serializeTriplet(obj)
            ELSE serializeHashtable(obj)

\* editor.encode(): what it returns
encode(value) ==
    IF IsFalsy(value) THEN [success |-> FALSE, error |-> "No data to encode"]
    ELSE LET serialized == serializeObject(value)
             combined == <<255, 1>> \o serialized
         IN  [success |-> TRUE, encoded |-> btoa(combined), size |-> Len(combined)]

-----------------------------------------------------------------------------
(* Varint scenario: encode a number, then read it back *)

VarintInputs ==
    {Wide(0, n) : n \in 0..MaxSmallInt}
    \cup {Wide(0, Pow2(e) - 1) : e \in {14, 21, 28}}
    \cup {Wide(0, Pow2(e)) : e \in {14, 21}}
    \cup {Wide(h, l) : h \in {1, 7, 8, 15, 16, 17, 127}, l \in {0, 1, Two28 - 1}}

Idle ==
    /\ position = 0
    /\ data = <<>>
    /\ stats = ZeroStats
    /\ stringTable = <<>>
    /\ typeTable = <<>>
    /\ trace = <<>>
    /\ currentData = [k |-> "null"]
    /\ editorStringTable = <<>>
    /\ result = None
    /\ encoded = None
    /\ out = None

InitVarint ==
    /\ Idle
    /\ input \in VarintInputs
    /\ pc = "start"

\* the octets of serializeInt32(input), followed by one more octet
VarintEncode ==
    /\ pc = "start"
    /\ LET bytes == serializeInt32(input)
       IN  /\ out' = [bytes |-> bytes]
           /\ data' = bytes \o <<129>>
    /\ position' = 1
    /\ trace' = <<1>>
    /\ pc' = "encoded"
    /\ UNCHANGED <<stats, stringTable, typeTable, currentData, editorStringTable,
                   input, result, encoded>>

VarintRead ==
    /\ pc = "encoded"
    /\ LET r == read7BitEncodedInt(data, DecState(position, stringTable, typeTable, stats, trace))
       IN  /\ out' = [bytes |-> out.bytes, v |-> r.v]
           /\ position' = r.st.position
           /\ trace' = r.st.trace
    /\ pc' = "read"
    /\ UNCHANGED <<data, stats, stringTable, typeTable, currentData, editorStringTable,
                   input, result, encoded>>

NextVarint == VarintEncode \/ VarintRead

SpecVarint == InitVarint /\ [][NextVarint]_vars

\* the number n as read7BitEncodedInt would have to return it
IsValueOf(v, w) == IsInt32(w) /\ v = WideToInt(w)

-----------------------------------------------------------------------------
(* Text scenario: serialize a string, then read it back after the tag *)

RECURSIVE SeqsUpTo(_, _)
SeqsUpTo(S, n) ==
    IF n = 0 THEN {<<>>}
    ELSE LET shorter == SeqsUpTo(S, n - 1)
         IN  shorter \cup {Append(q, x) : q \in shorter, x \in S}

\* a, A, e-acute, the euro sign, a high and a low surrogate, the BOM
TextUnits == {97, 65, 233, 8364, 55357, 56832, 65279}

\* a string is its first units followed by fill times the letter a
TextOf(t) == t.prefix \o [i \in 1..t.fill |-> 97]

TextInputs ==
    {[prefix |-> q, fill |-> 0] : q \in SeqsUpTo(TextUnits, MaxTextLen)}
    \cup {[prefix |-> q, fill |-> n] : q \in {<<>>, <<233>>},
                                      n \in {126, 127, 128, 16383, 16384}}
    \cup {[prefix |-> <<>>, fill |-> MaxStringLength + d] : d \in {-1, 0, 1}}
    \cup {[prefix |-> <<233>>, fill |-> MaxStringLength - d] : d \in {1, 2, 3}}

InitText ==
    /\ Idle
    /\ input \in TextInputs
    /\ pc = "start"

\* serializeString(s), one further octet, and readString from after the tag
TextRoundTrip ==
    /\ pc = "start"
    /\ LET ser == serializeString(TextOf(input))
           r == readString(ser \o <<65>>, DecState(1, <<>>, <<>>, ZeroStats, <<1>>))
       IN  out' = [written |-> Len(ser) - 1, v |-> r.v,
                   consumed |-> r.st.position - 1]
    /\ pc' = "done"
    /\ UNCHANGED <<position, data, stats, stringTable, typeTable, trace, currentData,
                   editorStringTable, input, result, encoded>>

NextText == TextRoundTrip

SpecText == InitText /\ [][NextText]_vars

\* the number of octets of the UTF-8 form of the string t describes
UTF8Len(t) == Len(UTF8Encode(t.prefix)) + t.fill

VarintBytes(n) ==
    IF n < Pow2(7) THEN 1 ELSE IF n < Pow2(14) THEN 2
    ELSE IF n < Pow2(21) THEN 3 ELSE IF n < Pow2(28) THEN 4 ELSE 5

RECURSIVE WellFormedFrom(_, _)
WellFormedFrom(q, i) ==
    IF i > Len(q) THEN TRUE
    ELSE IF IsHighSurrogate(q[i])
         THEN i < Len(q) /\ IsLowSurrogate(q[i + 1]) /\ WellFormedFrom(q, i + 2)
    ELSE ~IsLowSurrogate(q[i]) /\ WellFormedFrom(q, i + 1)

\* no lone surrogate: the string has a UTF-8 form
WellFormed(t) == WellFormedFrom(t.prefix, 1)

StartsWithBOM(t) == Len(t.prefix) > 0 /\ t.prefix[1] = 65279

TextRoundTripHolds ==
    /\ out.v = TextOf(input)
    /\ out.written = VarintBytes(UTF8Len(input)) + UTF8Len(input)
    /\ out.consumed = out.written

-----------------------------------------------------------------------------
(* Decoding scenario: one decoder instance, decode called on a text and then
   once more on another *)

\* tags, counts and bodies that steer the parser into each of its branches
ByteAlphabet == {0, 1, 2, 5, 15, 22, 23, 30, 31, 40, 41, 50, 65, 128, 143, 255}

Samples == {
    <<255, 1, 103>>,                                \* Bool true, framed
    <<255, 1, 10>>, <<255, 1, 100>>,                \* Null twice
    <<255, 1, 23, 2, 5, 1, 97, 3, 7, 5, 1, 98, 3, 9>>,      \* {"a": 7, "b": 9}
    <<255, 1, 40, 5, 2, 1, 3, 42, 3, 3, 43>>,       \* sparse [null, 42, null, 43, null]
    <<255, 1, 119>>,                                \* unknown tag 0x77
    <<15, 30, 1, 97, 31, 0>>,                       \* Pair(write "a", ref 0)
    <<15, 30, 0, 31, 0>>,                           \* Pair(write "", ref 0)
    <<15, 30, 1, 97, 31, 1>>,                       \* Pair(write "a", ref 1)
    <<22, 3, 30, 1, 97, 30, 1, 98, 31, 1>>,         \* [write "a", write "b", ref 1]
    <<16, 5, 1, 97, 31, 0, 30, 1, 98>>,             \* Triplet("a", ref 0, write "b")
    <<20, 145, 78, 11, 11>>,                        \* Array, count 10001
    <<21, 145, 78, 11, 11>>,                        \* StringArray, count 10001
    <<22, 145, 78, 11, 11>>,                        \* ArrayList, count 10001
    <<23, 145, 78, 11, 11>>,                        \* Hashtable, count 10001
    <<24, 145, 78, 11, 11>>,                        \* HybridDictionary, count 10001
    <<40, 145, 78, 1, 0, 11>>,                      \* sparse, length 10001, count 1
    <<40, 1, 145, 78, 0, 11>>,                      \* sparse, length 1, count 10001
    <<50, 0, 145, 78, 11, 12>>,                     \* typed array, length 10001
    <<20, 144, 78, 11, 12>>,                        \* Array, count 10000
    <<40, 128, 128, 128, 128, 8, 0>>,               \* sparse, length -2^31
    <<255, 1, 15, 11, 40, 128, 128, 128, 128, 8, 1, 0, 12>>,
    <<22, 2, 5, 4, 84, 101, 120, 116, 40, 255, 255, 255, 255, 15, 0>>,
    <<23, 2, 5, 1, 98, 11, 5, 1, 49, 12>>,          \* keys "b" then "1"
    <<24, 2, 3, 7, 11, 100, 12>>,                   \* keys 7 and null
    <<23, 2, 5, 1, 97, 11, 5, 1, 97, 12>>,          \* key "a" twice
    <<40, 2, 3, 0, 11, 5, 12, 1, 103>>,             \* sparse with an index past the length
    <<40, 2, 1, 255, 255, 255, 255, 15, 11>>,       \* sparse with index -1
    <<40, 233, 7, 1, 232, 7, 11>>,                  \* sparse, length 1001, index 1000
    <<13, 0, 1>>,                                   \* unknown tag 0x0D, unreadable body
    <<15, 13, 0, 1, 11>>,
    <<3, 65, 66, 67, 11>>,
    <<65>>,
    <<4, 65, 66, 67, 68>>,                          \* unknown-free: Char 'A'
    <<22, 2, 15, 11, 3, 7, 16, 5, 1, 120, 102, 104>>,       \* [Pair, Triplet]
    <<41, 5, 65>>,                                  \* opaque, 5 declared, 1 there
    <<42, 4, 84, 101, 120, 116, 11>>,               \* opaque "Text"
    <<41, 255, 255, 255, 255, 15>>,                 \* opaque, length -1
    <<101>>, <<5, 0>>, <<30, 0>>,                   \* three empty strings
    <<10, 12>>, <<11, 10>>, <<12, 100>>,            \* the constants, each followed
    <<100, 101>>, <<101, 102>>, <<102, 11>>,        \* by one more octet
    <<103, 104>>, <<104, 103>>,
    <<255, 1, 102>>, <<255, 1, 104, 11>>,
    <<15, 25, 1, 84, 60, 0>>,                       \* Pair(TypeRef "T", known type 0)
    <<15, 25, 0, 60, 0>>,                           \* Pair(TypeRef "", known type 0)
    <<60, 2>>,
    <<9, 255, 255, 255, 255, 15>>,                  \* Color
    <<9, 128, 129, 130, 4>>,
    <<6, 0, 64, 87, 32, 9, 72, 217, 8>>,            \* DateTime
    <<7, 0, 0, 0, 0, 0, 0, 224, 63>>,               \* Double 0.5
    <<8, 0, 0, 0, 63>>,                             \* Float 0.5
    <<27, 0, 0, 0, 0, 0, 0, 224, 63, 1>>,           \* Unit 0.5px
    <<1, 52, 18>>,                                  \* Int16 0x1234
    <<2, 172, 2>>,                                  \* Int32 300
    <<2, 255, 255, 255, 255, 255, 1>>,              \* Int32, six octets of varint
    <<5, 2, 195, 169, 11>>,                         \* "e-acute"
    <<5, 3, 239, 187, 191>>,                        \* a BOM alone
    <<5, 2, 195>>,                                  \* a string cut short
    <<50, 1, 2, 11, 12>>,                           \* typed array [true, false]
    <<15, 30, 1, 97, 40, 128, 128, 128, 128, 8, 0>>,        \* Pair(write "a", sparse, length -2^31)
    <<2, 255, 255, 255, 255, 255, 255>>             \* Int32, continuation bits to the end
}

Prefixes(b) == {SubSeq(b, 1, n) : n \in 0..Len(b)}

Buffers == SeqsUpTo(ByteAlphabet, MaxBufLen) \cup UNION {Prefixes(b) : b \in Samples}

\* texts that are no Base64, or are Base64 in transport dress
OtherTexts == {
    <<33, 33, 33, 110, 111, 116, 45, 98, 97, 115, 101, 54, 52, 33, 33, 33>>,  \* !!!not-base64!!!
    <<32, 47, 119, 70, 110, 10>>,                   \* " /wFn\n"
    <<37, 50, 70, 119, 70, 110>>,                   \* %2FwFn
    <<47, 119, 69, 37, 51, 68>>,                    \* /wE%3D
    <<37>>,                                         \* %
    <<47, 119, 37, 122, 122>>,                      \* /w%zz
    <<65>>,                                         \* A
    <<65, 61, 61, 61>>,                             \* A===
    <<37, 69, 50, 37, 56, 50, 37, 65, 67>>,         \* %E2%82%AC
    <<32, 32>>,                                     \* blank
    <<47, 119, 32, 70, 110>>                        \* "/w Fn"
}

Texts == {btoa(b) : b \in Buffers} \cup OtherTexts

\* what a second call is given
ReplayTexts == {btoa(<<31, 0>>), btoa(<<60, 0>>), btoa(<<15, 30, 1, 98, 11>>),
                <<33>>, <<>>}

Init ==
    /\ Idle
    /\ input = <<>>
    /\ pc = "new"

\* decoder.decode(text)
Decode(text) ==
    LET Returned(r) ==
            /\ input' = text
            /\ result' = r.result
            /\ position' = r.st.position
            /\ data' = r.data
            /\ stats' = r.st.stats
            /\ stringTable' = r.st.stringTable
            /\ typeTable' = r.st.typeTable
            /\ trace' = r.st.trace
            /\ out' = [calls |-> r.st.calls, refs |-> r.st.refs,
                        spans |-> r.st.spans, raised |-> r.raised,
                        before |-> [stringTable |-> stringTable,
                                    typeTable |-> typeTable, stats |-> stats]]
            /\ UNCHANGED <<currentData, editorStringTable, encoded>>
    IN  Returned(decode(text, data))

DecodeFirst ==
    /\ pc = "new"
    /\ \E text \in Texts : Decode(text)
    /\ pc' = "decoded"

DecodeAgain ==
    /\ pc = "decoded"
    /\ \E text \in ReplayTexts : Decode(text)
    /\ pc' = "again"

-----------------------------------------------------------------------------
(* Editing scenario: the JSON of the editor pane is loaded, encoded, and the
   encoded text is given to the decoder *)

Text_x == <<120>>
Text_yz == <<121, 122>>

ScalarDocs == {Null, Bool(TRUE), Bool(FALSE), Num(0), Num(7), Num(255), Num(256),
               Num(-1), Num(2147483647), Big(Wide(8, 0)), Big(Wide(16, 5)),
               Str(<<>>), Str(Text_x), Str(<<233>>),
               F64(<<0, 0, 0, 0, 0, 0, 248, 63>>)}

ItemDocs == {Null, Bool(TRUE), Num(7), Num(300), Str(Text_x), Str(<<>>)}

MemberNames == {<<97>>, <<98>>, <<49>>, Lit.type}
MemberDocs == {Num(7), Str(Text_x), Bool(FALSE), Arr(<<Str(Text_yz)>>)}

TextDocs == {Str(Text_x), Str(Text_yz)}

ListDocs(S) == {Arr(items) : items \in SeqsUpTo(S, MaxItems)}

MapDocs ==
    {Obj([i \in 1..Len(ms) |-> ms[i][1]], [i \in 1..Len(ms) |-> ms[i][2]]) :
        ms \in SeqsUpTo(MemberNames \X MemberDocs, MaxItems)}

\* Pairs of Text and of Lists of Text
PairParts == TextDocs \cup ListDocs(TextDocs)
PairDocs ==
    {Obj(<<Lit.type, Lit.first, Lit.second>>, <<Str(Lit.Pair), a, b>>) :
        a \in PairParts, b \in PairParts}

TripletParts == {Null, Num(7), Str(Text_x)}
TripletDocs ==
    {Obj(<<Lit.type, Lit.first, Lit.second, Lit.third>>, <<Str(Lit.Triplet), a, b, c>>) :
        a \in TripletParts, b \in TripletParts, c \in TripletParts}

NestedDocs == {
    Arr(<<Arr(<<Num(7)>>), Obj(<<<<97>>>>, <<Null>>)>>),
    Obj(<<<<97>>>>, <<Obj(<<<<98>>>>, <<Str(Text_x)>>)>>),
    Obj(<<Lit.first, Lit.type>>, <<Num(7), Str(Lit.Pair)>>),
    Arr(<<Obj(<<Lit.type, Lit.first, Lit.second>>, <<Str(Lit.Pair), Num(7), Num(300)>>)>>)
}

InvalidJSON == [k |-> "invalid"]

Docs == ScalarDocs \cup ListDocs(ItemDocs) \cup MapDocs \cup PairDocs
        \cup TripletDocs \cup NestedDocs \cup {InvalidJSON}

\* editor.fromJSON(jsonString)
FromJSON ==
    /\ pc = "new"
    /\ \E doc \in Docs :
        /\ input' = doc
        /\ currentData' = IF doc = InvalidJSON THEN currentData ELSE JSONparse(doc)
    /\ pc' = "loaded"
    /\ UNCHANGED <<position, data, stats, stringTable, typeTable, trace,
                   editorStringTable, result, encoded, out>>

\* editor.encode()
Encode ==
    /\ pc = "loaded"
    /\ encoded' = encode(currentData)
    /\ editorStringTable' = <<>>
    /\ pc' = "encoded"
    /\ UNCHANGED <<position, data, stats, stringTable, typeTable, trace,
                   currentData, input, result, out>>

\* the encoded text is pasted into the decoder
DecodeEncoded ==
    /\ pc = "encoded"
    /\ encoded.success
    /\ Decode(encoded.encoded)
    /\ pc' = "roundtrip"

Next == DecodeFirst \/ DecodeAgain \/ FromJSON \/ Encode \/ DecodeEncoded

Spec == Init /\ [][Next]_vars

-----------------------------------------------------------------------------
(* Properties of the decoding and editing scenarios *)

\* a decode call has returned
Decoded == pc \in {"decoded", "again", "roundtrip"}

\* the text of the last call was Base64
Base64Accepted == atob(cleanedInput(input)).ok

Sentinel(i) == Str(Lit.StringRef \o Dec(i) \o <<62>>)

\* the offset after the varint that starts at offset p of d
RECURSIVE VarintEnd(_, _, _)
VarintEnd(d, p, n) ==
    IF n = 5 \/ p >= Len(d) THEN p
    ELSE IF d[p + 1] < 128 THEN p + 1
    ELSE VarintEnd(d, p + 1, n + 1)

\* the number the varint at offset p of d declares
Declared(d, p) == read7BitEncodedInt(d, DecState(p, <<>>, <<>>, ZeroStats, <<>>)).v

IsEmptyCollection(v) ==
    \/ (v.k = "arr" /\ v.items = <<>>)
    \/ (v.k = "obj" /\ v.keys = <<>>)

\* equality of values that looks past the "type" members of objects and the
\* order of members
RECURSIVE SemEq(_, _)
SemEq(a, b) ==
    IF a.k # b.k THEN FALSE
    ELSE CASE a.k = "arr" ->
                /\ Len(a.items) = Len(b.items)
                /\ \A i \in 1..Len(a.items) : SemEq(a.items[i], b.items[i])
           [] a.k = "obj" ->
                LET ka == {a.keys[i] : i \in 1..Len(a.keys)} \ {Lit.type}
                    kb == {b.keys[i] : i \in 1..Len(b.keys)} \ {Lit.type}
                IN  /\ ka = kb
                    /\ \A key \in ka : SemEq(ObjGet(a, key), ObjGet(b, key))
           [] OTHER -> a = b

\* built from Null, Bool, integers in [0, 2^31), Text, List and Map
RECURSIVE IsPlain(_)
IsPlain(v) ==
    CASE v.k \in {"null", "bool", "str"} -> TRUE
      [] v.k = "num" -> v.n >= 0
      [] v.k = "arr" -> \A i \in 1..Len(v.items) : IsPlain(v.items[i])
      [] v.k = "obj" ->
            /\ ~IsTyped(v, Lit.Pair)
            /\ ~IsTyped(v, Lit.Triplet)
            /\ \A i \in 1..Len(v.vals) : IsPlain(v.vals[i])
      [] OTHER -> FALSE

IsTextOrTexts(v) ==
    \/ v.k = "str"
    \/ (v.k = "arr" /\ \A i \in 1..Len(v.items) : v.items[i].k = "str")

IsPairOfTexts(v) ==
    /\ v.k = "obj"
    /\ IsTyped(v, Lit.Pair)
    /\ HasKey(v, Lit.first) /\ IsTextOrTexts(ObjGet(v, Lit.first))
    /\ HasKey(v, Lit.second) /\ IsTextOrTexts(ObjGet(v, Lit.second))

\* C1, as the spec states it: a value built from Null, Bool, integers in
\* [0, 2^31), Text, List and Map comes back semantically equal from
\* encode followed by decode
C1_AsStated ==
    (pc = "roundtrip" /\ IsPlain(currentData))
    => /\ result.success
       /\ SemEq(result.data, currentData)

\* C2, as the spec states it: a Pair of Texts or Lists of Text comes back from
\* JSON parse, encode, decode as a Pair with the same first and second
C2_AsStated ==
    (pc = "roundtrip" /\ IsPairOfTexts(currentData))
    => /\ result.success
       /\ result.data.k = "obj"
       /\ IsTyped(result.data, Lit.Pair)
       /\ Field(result.data, Lit.first) = ObjGet(currentData, Lit.first)
       /\ Field(result.data, Lit.second) = ObjGet(currentData, Lit.second)

\* C5: when the text is the Base64 of any octet buffer, every value the cursor
\* took during the decode lies in 0..data.length, and the decode ends with a
\* result that carries a value
C5_CursorSafety ==
    (Decoded /\ Base64Accepted)
    => /\ \A i \in 1..Len(trace) : trace[i] >= 0 /\ trace[i] <= Len(data)
       /\ position >= 0 /\ position <= Len(data)
       /\ result.success
       /\ "data" \in DOMAIN result

\* a string whose declared length passes the end of the buffer was read, and
\* the cursor stopped at the end
C5_Witness ==
    /\ pc = "decoded"
    /\ data = <<5, 2, 195>>
    /\ position = 3
    /\ trace = <<0, 1, 0, 1, 2, 3>>
    /\ result.success

\* C6, as the spec states it: a 0x1F reference with index i yields the Text of
\* the (i+1)-th 0x1E write when there were at least i+1 writes before it, the
\* empty Text included, and the sentinel "<StringRef:i>" when i is not smaller
\* than the number of writes before it
C6_AsStated ==
    Decoded =>
        \A n \in 1..Len(out.refs) :
            LET ref == out.refs[n]
            IN  /\ (ref.index >= 0 /\ ref.index < Len(ref.writes))
                        => ref.value = Str(ref.writes[ref.index + 1])
                /\ ref.index >= Len(ref.writes) => ref.value = Sentinel(ref.index)

\* the buffer starts with one of these tags, followed by a count
CountFirstTags == {20, 21, 22, 23, 24}
\* the buffer starts with one of these tags, followed by a number and a count
CountSecondTags == {40, 50}

\* C7, as the spec states it: for each of the seven collection tags a declared
\* count above 10 000 gives an empty collection, the cursor just after the
\* count's varint, and no element parsed
C7_AsStated ==
    (pc = "decoded" /\ Len(data) >= 2 /\ data[1] \in CountFirstTags \cup CountSecondTags)
    => LET countAt == IF data[1] \in CountFirstTags THEN 1 ELSE VarintEnd(data, 1, 0)
       IN  Declared(data, countAt) > MaxCount
           => /\ result.success
              /\ IsEmptyCollection(result.data)
              /\ position = VarintEnd(data, countAt, 0)
              /\ out.calls = 1

\* C7 (amended): for the tags 0x14, 0x15, 0x16, 0x17, 0x18 a declared count
\* above 10 000 gives an empty collection, the cursor just after the count's
\* varint, and no element parsed; for 0x28 the same holds of the declared
\* length, with the cursor after the count that follows the length
C7_Clamp ==
    (pc = "decoded" /\ Len(data) >= 2 /\ data[1] \in CountFirstTags \cup {40}
        /\ Declared(data, 1) > MaxCount)
    => /\ result.success
       /\ result.data = (IF data[1] \in {23, 24} THEN EmptyObj ELSE Arr(<<>>))
       /\ position = (IF data[1] = 40 THEN VarintEnd(data, VarintEnd(data, 1, 0), 0)
                      ELSE VarintEnd(data, 1, 0))
       /\ out.calls = 1

\* an ArrayList that declares 10 001 items and is followed by two more octets
\* was decoded to the empty list with the cursor at offset 3
C7_Witness ==
    /\ pc = "decoded"
    /\ data = <<22, 145, 78, 11, 11>>
    /\ result.success
    /\ result.data = Arr(<<>>)
    /\ position = 3

\* C8, as the spec states it: a buffer that is not empty never makes the
\* parser raise, so the fallback is entered only for an empty buffer or a
\* Base64 failure
C8_AsStated ==
    (Decoded /\ Base64Accepted /\ Len(data) > 0) => out.raised = ""

\* C9, as the spec states it: when the structured parse raises, the result is
\* a success with its note only if the extractor found content, and otherwise
\* a failure that carries the suggestion
C9_AsStated ==
    (Decoded /\ Base64Accepted /\ out.raised # "")
    => IF result.success
       THEN /\ "note" \in DOMAIN result
            /\ HasOwnKeys(ObjGet(result.data, Lit.content))
       ELSE result.suggestion = SuggestionText

\* C10: a text that atob rejects, after trimming and the URL-decoding attempt,
\* gives a failure with the suggestion text and never a success
C10_BadBase64 ==
    (Decoded /\ ~Base64Accepted)
    => /\ result.success = FALSE
       /\ result.suggestion =
            "Make sure the input is a valid Base64-encoded ASP.NET ViewState string"

\* "!!!not-base64!!!" was given and refused
C10_Witness ==
    /\ pc = "decoded"
    /\ input = <<33, 33, 33, 110, 111, 116, 45, 98, 97, 115, 101, 54, 52, 33, 33, 33>>
    /\ result.success = FALSE
    /\ out.raised = "InvalidCharacterError"

\* the octets the encoder returned, out of their Base64
EncodedOctets == atob(encoded.encoded).bytes

\* C11, as the spec states it: whatever value the editor holds, a top-level
\* Null, false, 0 or empty Text included, encode succeeds, its text is the
\* Base64 of 0xFF 0x01 followed by the serialized value, and size is the
\* number of those octets
C11_AsStated ==
    pc = "encoded"
    => /\ encoded.success
       /\ EncodedOctets = <<255, 1>> \o serializeObject(currentData)
       /\ encoded.size = Len(EncodedOctets)

\* the offset of the value's tag: after the 0xFF and the version when the
\* buffer is framed, at the start when it is not
BodyStart(d) == IF d[1] = 255 THEN 2 ELSE 0

\* one value parsed from offset p of d by a decoder that has just been reset
OneValueFrom(d, p) == parseObject(d, DecState(p, <<>>, <<>>, ZeroStats, <<>>))

\* C12: when the first octet is 0xFF the octet after it is skipped and the
\* result is the one value that starts at offset 2; otherwise the result is the
\* one value that starts at offset 0; the cursor stops where that value ends
C12_Framing ==
    (Decoded /\ Base64Accepted /\ out.raised = ""
        /\ Len(data) > 0 /\ (data[1] = 255 => Len(data) >= 2))
    => /\ result.success
       /\ result.data = OneValueFrom(data, BodyStart(data)).v
       /\ position = OneValueFrom(data, BodyStart(data)).st.position
       /\ out.calls = OneValueFrom(data, BodyStart(data)).st.calls

\* the Base64 of FF 01 67 was decoded to Bool true, the cursor at the end
C12_Witness ==
    /\ pc = "decoded"
    /\ data = <<255, 1, 103>>
    /\ result.success
    /\ result.data = Bool(TRUE)
    /\ position = 3

\* C13, as the spec states it: a Bool is written as the one octet 0x67 when
\* true and 0x68 when false, and decoding what was written gives the Bool back
C13_AsStated ==
    /\ (pc \in {"encoded", "roundtrip"} /\ encoded.success /\ currentData.k = "bool")
        => EncodedOctets = <<255, 1, IF currentData.b THEN 103 ELSE 104>>
    /\ (pc = "roundtrip" /\ currentData.k = "bool")
        => result.success /\ result.data = currentData

\* octets of which every one but the last has the continuation bit set, and
\* the last has it clear
IsVarint(octets) ==
    /\ Len(octets) > 0
    /\ \A i \in 1..Len(octets) :
        /\ octets[i] \in 0..255
        /\ (octets[i] >= 128) = (i < Len(octets))

\* C14, as the spec states it: an integer in [0,255] is written as 0x03 and
\* that octet; every other integer, larger or negative, is written as 0x02 and
\* a well-formed varint
C14_AsStated ==
    (pc = "encoded" /\ encoded.success /\ currentData.k \in {"num", "big"})
    => LET written == SubSeq(EncodedOctets, 3, Len(EncodedOctets))
       IN  IF currentData.k = "num" /\ currentData.n \in 0..255
           THEN written = <<3, currentData.n>>
           ELSE /\ Len(written) > 0
                /\ written[1] = 2
                /\ IsVarint(Tail(written))

\* C15, as the spec states it: a Map that is no Pair and no Triplet is written
\* as 0x17, the varint of the number of its entries, and every one of its
\* entries in turn, the key as a Text and then the value
C15_AsStated ==
    (pc = "encoded" /\ currentData.k = "obj"
        /\ ~IsTyped(currentData, Lit.Pair) /\ ~IsTyped(currentData, Lit.Triplet))
    => /\ encoded.success
       /\ EncodedOctets =
            <<255, 1, 23>> \o Uint8Array(encode7BitInt(ToWide(Len(currentData.keys))))
                \o serializeEntries(currentData, currentData.keys, 1)

\* the n (key, value) entries written from the cursor of st on, in the order
\* of the wire, the keys stringified; enough tells whether every key and every
\* value started inside the buffer
RECURSIVE WireEntries(_, _, _, _)
WireEntries(d, st, n, entries) ==
    IF n = 0 THEN [entries |-> entries, enough |-> TRUE]
    ELSE IF st.position >= Len(d) THEN [entries |-> entries, enough |-> FALSE]
    ELSE LET key == parseObject(d, st)
             value == parseObject(d, key.st)
         IN  IF key.st.position >= Len(d) THEN [entries |-> entries, enough |-> FALSE]
             ELSE WireEntries(d, value.st, n - 1,
                    Append(entries, [key |-> ToStringJS(key.v), value |-> value.v]))

\* the entries of the top-level hashtable body of d
TopEntries(d) ==
    WireEntries(d, read7BitEncodedInt(d, DecState(BodyStart(d) + 1, <<>>, <<>>,
                                                  ZeroStats, <<>>)).st,
                Declared(d, BodyStart(d) + 1), <<>>)

\* no two of the entries have the same key
DistinctKeys(entries) ==
    \A i, j \in 1..Len(entries) : entries[i].key = entries[j].key => i = j

\* C16, as the spec states it: a hashtable body (0x17, 0x18) with a count
\* N <= 10 000, enough octets and N different keys decodes to a Map of N
\* entries, the keys stringified, whose keys enumerate in the order of the wire
C16_AsStated ==
    (pc = "decoded" /\ Base64Accepted /\ out.raised = ""
        /\ Len(data) > BodyStart(data) + 1
        /\ data[BodyStart(data) + 1] \in {23, 24}
        /\ Declared(data, BodyStart(data) + 1) \in 0..MaxCount
        /\ TopEntries(data).enough
        /\ DistinctKeys(TopEntries(data).entries))
    => /\ result.success
       /\ result.data.k = "obj"
       /\ result.data.keys =
            [i \in 1..Len(TopEntries(data).entries) |-> TopEntries(data).entries[i].key]
       /\ result.data.vals =
            [i \in 1..Len(TopEntries(data).entries) |-> TopEntries(data).entries[i].value]

\* the (index, value) entries written from the cursor of st on, as many of the
\* n declared as start inside the buffer
RECURSIVE WireSparse(_, _, _, _)
WireSparse(d, st, n, entries) ==
    IF n = 0 \/ st.position >= Len(d) THEN entries
    ELSE LET index == read7BitEncodedInt(d, st)
             value == parseObject(d, index.st)
         IN  WireSparse(d, value.st, n - 1,
                        Append(entries, [index |-> index.v, value |-> value.v]))

\* the dense list of length L that the entries describe: at each listed index
\* the value listed for it last, and Null everywhere else
Dense(L, entries) ==
    [j \in 1..L |->
        LET listed == {i \in 1..Len(entries) : entries[i].index = j - 1}
        IN  IF listed = {} THEN Null
            ELSE entries[CHOOSE i \in listed : \A other \in listed : other <= i].value]

\* the entries of the top-level sparse body of d: after the tag, the length
\* and the count
TopSparse(d) ==
    LET length == read7BitEncodedInt(d, DecState(BodyStart(d) + 1, <<>>, <<>>,
                                                 ZeroStats, <<>>))
        count == read7BitEncodedInt(d, length.st)
    IN  WireSparse(d, count.st, count.v, <<>>)

\* C17, as the spec states it: tag 0x28 with a declared length L <= 10 000
\* decodes to a list of exactly L elements in which every listed index below L
\* holds its value and every other position holds Null
C17_AsStated ==
    (pc = "decoded" /\ Base64Accepted /\ out.raised = ""
        /\ Len(data) > BodyStart(data) + 1
        /\ data[BodyStart(data) + 1] = 40
        /\ Declared(data, BodyStart(data) + 1) \in 0..MaxCount)
    => /\ result.success
       /\ result.data = Arr(Dense(Declared(data, BodyStart(data) + 1), TopSparse(data)))

\* the tags parseObject has a case for
DispatchTags ==
    (1..12) \cup {15, 16} \cup (20..25) \cup {27, 30, 31, 40, 41, 42, 50, 60}
        \cup (100..104)

\* C18, as the spec states it: a tag outside the dispatch table whose recovery
\* as a string gives no printable text yields an Unknown value whose marker is
\* the tag and whose position is the offset of the tag in the buffer
C18_AsStated ==
    (pc = "decoded" /\ Base64Accepted /\ out.raised = ""
        /\ Len(data) > BodyStart(data)
        /\ data[BodyStart(data) + 1] \notin DispatchTags
        /\ result.data.k # "str")
    => /\ result.success
       /\ result.data =
            Obj(<<Lit.type, Lit.marker, Lit.position>>,
                <<Str(Lit.Unknown),
                  Str(<<48, 120, HexDigit(data[BodyStart(data) + 1] \div 16),
                        HexDigit(data[BodyStart(data) + 1] % 16)>>),
                  Num(BodyStart(data))>>)

\* the tags that stand for a value by themselves
ConstantTags == {10, 11, 12, 100, 101, 102, 103, 104}

\* the value the spec gives each of them
ConstantValue(tag) ==
    CASE tag \in {10, 100} -> Null
      [] tag = 101 -> Str(<<>>)
      [] tag = 102 -> Num(0)
      [] tag \in {11, 103} -> Bool(TRUE)
      [] tag \in {12, 104} -> Bool(FALSE)

\* C19: 0x0A and 0x64 decode to Null, 0x65 to the empty Text, 0x66 to the
\* integer 0, 0x0B and 0x67 to true, 0x0C and 0x68 to false, and each takes
\* the one tag octet and nothing more, whatever follows it
C19_Constants ==
    (Decoded /\ Base64Accepted /\ Len(data) > 0 /\ Len(data) > BodyStart(data)
        /\ data[BodyStart(data) + 1] \in ConstantTags)
    => /\ result.success
       /\ out.raised = ""
       /\ result.data = ConstantValue(data[BodyStart(data) + 1])
       /\ position = BodyStart(data) + 1
       /\ out.calls = 1

\* 0x66 followed by one more octet was decoded to the integer 0, the cursor
\* after the tag
C19_Witness ==
    /\ pc = "decoded"
    /\ data = <<102, 11>>
    /\ result.success
    /\ result.data = Num(0)
    /\ position = 1

-----------------------------------------------------------------------------
(* Statistics scenario: two bodies are decoded, each alone, and then a List
   that wraps the one followed by the other *)

RECURSIVE Flatten(_)
Flatten(seqs) == IF seqs = <<>> THEN <<>> ELSE Head(seqs) \o Flatten(Tail(seqs))

\* true, the integer 7, the indexed string "a"
ItemBodies == {<<11>>, <<3, 7>>, <<30, 1, 97>>}

\* an ArrayList of the items
ListBody(items) == <<22, Len(items)>> \o Flatten(items)

\* a typed array of 1001 elements, each Null
LongTypedArray == <<50, 0, 233, 7>> \o [i \in 1..1001 |-> 10]

\* well-formed bodies, every octet they declare being there
Bodies ==
    {ListBody(items) : items \in SeqsUpTo(ItemBodies, MaxItems)}
    \cup {<<100>>, <<2, 172, 2>>, <<5, 2, 195, 169>>, <<15, 11, 12>>,
          <<16, 10, 3, 7, 101>>, <<20, 1, 15, 30, 1, 97, 31, 0>>,
          <<23, 1, 5, 1, 97, 3, 7>>, <<25, 1, 84>>, <<31, 0>>,
          <<40, 2, 1, 1, 11>>, <<42, 1, 65>>, <<50, 0, 1, 11>>,
          LongTypedArray}

InitStats ==
    /\ Idle
    /\ input \in [a : Bodies, b : Bodies]
    /\ pc = "start"

\* decoder.decode(btoa(buffer)), from the point where atob has returned
DecodeBuffer(buffer) ==
    LET Returned(r) ==
            /\ result' = r.result
            /\ position' = r.st.position
            /\ data' = r.data
            /\ stats' = r.st.stats
            /\ stringTable' = r.st.stringTable
            /\ typeTable' = r.st.typeTable
            /\ trace' = r.st.trace
            /\ UNCHANGED <<input, currentData, editorStringTable, encoded>>
    IN  Returned(decodeParsed(btoa(buffer), [ok |-> TRUE, bytes |-> buffer],
                              parseViewState(buffer, ResetState), data))

\* what is kept of a decode: its counters and where the cursor stopped
Kept == [stats |-> stats', position |-> position']

DecodeFirstBody ==
    /\ pc = "start"
    /\ DecodeBuffer(input.a)
    /\ out' = [a |-> Kept]
    /\ pc' = "first"

DecodeSecondBody ==
    /\ pc = "first"
    /\ DecodeBuffer(input.b)
    /\ out' = [a |-> out.a, b |-> Kept]
    /\ pc' = "second"

DecodeWrapped ==
    /\ pc = "second"
    /\ DecodeBuffer(<<22, 2>> \o input.a \o input.b)
    /\ out' = out
    /\ pc' = "wrapped"

NextStats == DecodeFirstBody \/ DecodeSecondBody \/ DecodeWrapped

SpecStats == InitStats /\ [][NextStats]_vars

Counters == DOMAIN ZeroStats

\* the decoder, given the body alone, read it to its last octet
ReadInFull(body, kept) == kept.position = Len(body)

-----------------------------------------------------------------------------
(* Properties of the cursor, the tables and the counters *)

\* the tags whose body is a length followed by that many octets
LengthPrefixedTags == {5, 25, 30, 41, 42}

\* C21, as the spec states it: a Text (0x05), an interned Text (0x1E), a
\* TypeRef name (0x19) and an opaque blob (0x29, 0x2A) take, after their
\* length varint, exactly min(declared length, octets left) octets, whatever
\* the declared length
C21_AsStated ==
    (pc = "decoded" /\ Base64Accepted /\ out.raised = ""
        /\ Len(data) > BodyStart(data)
        /\ data[BodyStart(data) + 1] \in LengthPrefixedTags
        /\ Declared(data, BodyStart(data) + 1) >= 0)
    => LET bodyAt == VarintEnd(data, BodyStart(data) + 1, 0)
       IN  position = bodyAt + Min(Declared(data, BodyStart(data) + 1),
                                   Len(data) - bodyAt)

\* the steps of the cursor that go backwards, as indexes into the trace
BackwardSteps == {i \in 1..(Len(trace) - 1) : trace[i + 1] < trace[i]}

\* step i un-reads the tag octet that tryRecoverParse takes for a length
IsRecoveryStep(i) ==
    /\ trace[i + 1] = trace[i] - 1
    /\ data[trace[i]] \notin DispatchTags
    /\ data[trace[i]] > 0 /\ data[trace[i]] < 128

\* step i is parseViewState putting the cursor back on a first octet that
\* is not the format marker
IsFramingReset(i) == i = 2 /\ trace[i] = 1 /\ trace[i + 1] = 0 /\ data[1] # 255

\* a decode whose structured parse returned
Structured == pc = "decoded" /\ Base64Accepted /\ out.raised = ""

\* C22, as the spec states it: during structured parsing the cursor moves
\* backwards only in tag-level recovery and then by exactly one octet, and
\* every parseObject call that starts before the end of the buffer returns
\* with the cursor strictly greater than where it started.
C22_AsStated ==
    Structured =>
        /\ \A i \in BackwardSteps : IsRecoveryStep(i)
        /\ \A n \in 1..Len(out.spans) : out.spans[n].to > out.spans[n].from

\* C22, amended: the cursor moves backwards by exactly one octet and only
\* in tag-level recovery or when parseViewState puts it back on a first
\* octet that is not the format marker; every parseObject call that starts
\* before the end of the buffer returns with the cursor strictly greater
\* than where it started.
C22_CursorSteps ==
    Structured =>
        /\ \A i \in BackwardSteps :
              /\ trace[i + 1] = trace[i] - 1
              /\ IsRecoveryStep(i) \/ IsFramingReset(i)
        /\ \A n \in 1..Len(out.spans) : out.spans[n].to > out.spans[n].from

\* a parse that recovered from an unassigned tag inside a composite and
\* returned several values
C22_Witness ==
    /\ Structured
    /\ \E i \in BackwardSteps : i > 2 /\ IsRecoveryStep(i)
    /\ Len(out.spans) > 1

\* the parseObject calls one parse of n octets can make: every call that
\* starts before the end of the buffer consumes the octet of its tag, and
\* makes at most three calls that start at the end
CallsOfParse(n) == 4 * n + 1

\* C23: decode terminates on every input: the number of parseObject
\* invocations is bounded by a function of the buffer length, whatever the
\* nesting and the declared counts; the structured parse runs once, and once
\* more in the fallback.
C23_BoundedCalls ==
    (Decoded /\ Base64Accepted) => out.calls <= 2 * CallsOfParse(Len(data))

\* a list that declares far more items than the buffer holds has been parsed
C23_Witness ==
    /\ Structured
    /\ Len(data) > 0 /\ data[1] \in {20, 21, 22}
    /\ Declared(data, 1) > Len(data)
    /\ Declared(data, 1) <= MaxCount
    /\ out.calls > 1

\* the fields of a decoder as its constructor leaves them
NewDecoder ==
    [position |-> 0, stringTable |-> <<>>, typeTable |-> <<>>, stats |-> ZeroStats,
     trace |-> <<0>>, calls |-> 0, refs |-> <<>>, spans |-> <<>>, thrown |-> ""]

\* what the first decode of a new instance returns for the text
OnNewDecoder(text) ==
    decodeParsed(text, atob(text), parseViewState(atob(text).bytes, NewDecoder), <<>>)

\* the call left the result, the counters, the tables and the resolved
\* references that `fresh` holds
SameOutcome(fresh) ==
    /\ result = fresh.result
    /\ stats = fresh.st.stats
    /\ stringTable = fresh.st.stringTable
    /\ typeTable = fresh.st.typeTable
    /\ out.refs = fresh.st.refs

\* C24: the intern tables and the counters are reset on entry to decode: the
\* result (value and statistics) of a later call on the same instance equals
\* what a new instance gives for the same text, and no StringRef resolves to
\* an entry interned by an earlier call.
C24_FreshEachCall ==
    pc = "again" =>
        /\ SameOutcome(OnNewDecoder(cleanedInput(input)))
        /\ \A n \in 1..Len(out.refs) :
              out.refs[n].writes \in Prefixes(stringTable)

\* a second call that looked up the string table after a first call that
\* had interned a string, named a type and counted values
C24_Witness ==
    /\ pc = "again"
    /\ Len(out.before.stringTable) > 0
    /\ out.before.stats # ZeroStats
    /\ Len(out.refs) > 0
    /\ out.raised = ""

\* the parseObject calls that returned a value of one of the tags, in the
\* order in which they returned
SpansOf(tags) == SelectSeq(out.spans, LAMBDA s : s.tag \in tags)

\* C25: within one decode the string table grows by exactly one entry per
\* tag-0x1E value parsed and the type table by exactly one entry per tag-0x19
\* value parsed, in the order of parsing; no other tag changes either table
\* and no entry is removed or moved.
C25_TablesAppendOnly ==
    (Decoded /\ Base64Accepted) =>
        /\ Len(stringTable) = Len(SpansOf({30}))
        /\ \A k \in 1..Len(stringTable) :
              Str(stringTable[k]) = OneValueFrom(data, SpansOf({30})[k].from).v
        /\ Len(typeTable) = Len(SpansOf({25}))
        /\ \A k \in 1..Len(typeTable) :
              Obj(<<Lit.type, Lit.name>>, <<Str(Lit.TypeRef), Str(typeTable[k])>>)
                  = OneValueFrom(data, SpansOf({25})[k].from).v
        /\ \A n \in 1..Len(out.refs) : out.refs[n].writes \in Prefixes(stringTable)

\* two strings were interned and looked up next to values of other tags,
\* or a type was named next to a plain Text
C25_Witness ==
    /\ Structured
    /\ \/ Len(stringTable) = 2 /\ Len(out.refs) > 0
       \/ Len(typeTable) = 1
    /\ Len(out.spans) > Len(stringTable) + Len(typeTable)

\* the values one structured parse of the buffer returns, as [tag, from, to]
ValuesParsedOnce == parseViewState(data, NewDecoder).st.spans

\* how many of them have one of the tags
NumberOf(tags) ==
    Cardinality({n \in 1..Len(ValuesParsedOnce) : ValuesParsedOnce[n].tag \in tags})

\* C26, as the spec states it: after a decode that reports success each
\* counter equals the number of values of its kind in the decoded input, each
\* value counted once: pairs, triplets, arrays (List, ArrayList, SparseList,
\* TypedArray), strings (Text), integers (Byte, Int16, Int32, Int32-zero),
\* booleans and objects (Opaque).
C26_AsStated ==
    (pc = "decoded" /\ Base64Accepted /\ result.success) =>
        /\ stats.pairs = NumberOf({15})
        /\ stats.triplets = NumberOf({16})
        /\ stats.arrays = NumberOf({20, 21, 22, 40, 50})
        /\ stats.strings = NumberOf({5, 30})
        /\ stats.integers = NumberOf({1, 2, 3, 102})
        /\ stats.booleans = NumberOf({11, 12, 103, 104})
        /\ stats.objects = NumberOf({41, 42})

\* read7BitEncodedInt() called with the cursor at offset p of the buffer
VarintAt(p) == read7BitEncodedInt(data, DecState(p, <<>>, <<>>, ZeroStats, <<>>))

\* the octets that call consumes
Consumed(p) == VarintAt(p).st.position - p

\* the low seven bits of the first n octets from offset p, the first octet
\* least significant
Septets(p, n) ==
    LET Part(j) == IF j <= n THEN (data[p + j] % Two7) * Pow2(7 * (j - 1)) ELSE 0
    IN  Part(1) + Part(2) + Part(3) + Part(4)

\* C27: read7BitEncodedInt consumes at most 5 octets per call for any buffer,
\* stops at the first octet whose continuation bit is clear, and when the
\* buffer is exhausted inside a varint returns the partial result accumulated
\* so far without raising.
C27_VarintRead ==
    (Decoded /\ Base64Accepted) =>
        \A p \in 0..Len(data) :
            /\ Consumed(p) \in 0..5
            /\ \A j \in 1..(Consumed(p) - 1) : data[p + j] >= Two7
            /\ \/ Consumed(p) = 5
               \/ p + Consumed(p) = Len(data)
               \/ data[p + Consumed(p)] < Two7
            /\ ~Thrown(VarintAt(p).st)
            /\ Consumed(p) < 5 => VarintAt(p).v = Septets(p, Consumed(p))

\* a buffer with an offset from which five octets with the continuation bit
\* set are read and the read stops, and a later offset from which the
\* buffer ends inside the varint
C27_Witness ==
    /\ pc = "decoded" /\ Base64Accepted
    /\ \E p \in 0..Len(data) :
          /\ Consumed(p) = 5 /\ data[p + 5] >= Two7 /\ p + 5 < Len(data)
    /\ \E q \in 0..Len(data) :
          /\ Consumed(q) \in 1..4 /\ q + Consumed(q) = Len(data)
          /\ data[Len(data)] >= Two7
          /\ VarintAt(q).v > 0

\* C28, as the spec states it: for every buffer and cursor position
\* read7BitEncodedInt returns a non-negative integer, so that every decoded
\* count, length, index and Int32 value is non-negative.
C28_AsStated ==
    (Decoded /\ Base64Accepted) => \A p \in 0..Len(data) : VarintAt(p).v >= 0

\* C29: in every result produced by the fallback path (note set),
\* content.structure is absent: the structured parse that extractAllContent
\* runs again from offset 0 raises whenever the first structured parse of the
\* buffer raised, whatever counters and tables the first parse left.
C29_NoStructureInFallback ==
    (Decoded /\ "note" \in DOMAIN result) =>
        /\ out.raised # ""
        /\ ~HasKey(ObjGet(result.data, Lit.content), Lit.structure)

\* a fallback result for a framed buffer whose first parse had counted
\* values before it raised
C29_Witness ==
    /\ pc = "decoded"
    /\ "note" \in DOMAIN result
    /\ Len(data) > 0 /\ data[1] = 255
    /\ stats.pairs > 0

-----------------------------------------------------------------------------
(* Page scenario: the decoder tab of the page, with its input box, its
   decode button and the deferred callbacks of decodeViewState *)

\* decode requests made on the page
MaxRequests == 3

\* what the input box is given: "Cw==", "BQF4" between spaces, a space, "!"
PageTexts == {btoa(<<11>>), <<32>> \o btoa(<<5, 1, 120>>) \o <<32>>, <<32>>, <<33>>}

InitPage ==
    /\ position = 0
    /\ data = <<>>
    /\ stats = ZeroStats
    /\ stringTable = <<>>
    /\ typeTable = <<>>
    /\ trace = <<>>
    /\ currentData = [k |-> "null"]
    /\ editorStringTable = <<>>
    /\ result = None
    /\ encoded = None
    /\ input = <<>>
    /\ out = [disabled |-> FALSE, timers |-> <<>>, requests |-> 0, latest |-> <<>>]
    /\ pc = "page"

\* a text is pasted into the input box
PasteInput ==
    /\ pc = "page"
    /\ \E text \in PageTexts : input' = text
    /\ UNCHANGED <<position, data, stats, stringTable, typeTable, trace,
                   currentData, editorStringTable, result, encoded, out, pc>>

\* the clear button: the input box is emptied and clearOutput() forgets
\* the decoded data
ClearInput ==
    /\ pc = "page"
    /\ input' = <<>>
    /\ result' = None
    /\ UNCHANGED <<position, data, stats, stringTable, typeTable, trace,
                   currentData, editorStringTable, encoded, out, pc>>

\* decodeViewState(): an empty input is refused; otherwise the button is
\* disabled and the callback is scheduled with the trimmed input
decodeViewState ==
    /\ out.requests < MaxRequests
    /\ out' = IF Trim(input) = <<>>
              THEN [out EXCEPT !.requests = @ + 1]
              ELSE [out EXCEPT !.requests = @ + 1,
                               !.disabled = TRUE,
                               !.timers = Append(@, Trim(input)),
                               !.latest = Trim(input)]
    /\ UNCHANGED <<position, data, stats, stringTable, typeTable, trace,
                   currentData, editorStringTable, input, result, encoded, pc>>

\* a click on the decode button, which a disabled button does not deliver
ClickDecode ==
    /\ pc = "page"
    /\ ~out.disabled
    /\ decodeViewState

\* Ctrl+Enter in the input box
KeydownCtrlEnter ==
    /\ pc = "page"
    /\ decodeViewState

\* the callback of the oldest pending setTimeout runs
TimerCallback ==
    /\ pc = "page"
    /\ Len(out.timers) > 0
    /\ LET Returned(r) ==
            /\ result' = r.result
            /\ position' = r.st.position
            /\ data' = r.data
            /\ stats' = r.st.stats
            /\ stringTable' = r.st.stringTable
            /\ typeTable' = r.st.typeTable
            /\ trace' = r.st.trace
            /\ currentData' = IF r.result.success THEN r.result.data ELSE currentData
       IN  Returned(decode(Head(out.timers), data))
    /\ out' = [out EXCEPT !.timers = Tail(@), !.disabled = FALSE]
    /\ UNCHANGED <<editorStringTable, input, encoded, pc>>

NextPage == PasteInput \/ ClearInput \/ ClickDecode \/ KeydownCtrlEnter \/ TimerCallback

SpecPage == InitPage /\ [][NextPage]_vars

\* C30, as the spec states it: in the page controller at most one decode is
\* pending at any time: between a decode request (button click or
\* Ctrl+Enter) and the run of its deferred callback no second decode is
\* scheduled, the decode button stays disabled while a decode is pending,
\* and the decoded data the page holds come from the most recent request.
C30_AsStated ==
    pc = "page" =>
        /\ Len(out.timers) <= 1
        /\ Len(out.timers) > 0 => out.disabled
        /\ (Len(out.timers) = 0 /\ result # None)
                => result = decode(out.latest, data).result

====
